---- MODULE Spec2Model ----
(***************************************************************************)
(* Spatial world model, collision, raycasting and physics integration of   *)
(* the Doom-Clone engine (src/physics, src/world, src/entities).           *)
(*                                                                         *)
(* Numbers.  The program computes in floating point.  Here every length,   *)
(* velocity, acceleration, time and unit-vector component is a fixed-point *)
(* integer counting 1/Unit of a world unit (Unit = 10^4, so the push-out   *)
(* epsilon 0.001 is 10).  Products and quotients round toward zero, the    *)
(* square root rounds down.  The scenes are drawn from grids on which the  *)
(* arithmetic of the common cases is exact.                                *)
(***************************************************************************)
EXTENDS Integers, Sequences, FiniteSets, TLC

VARIABLES
    level,      \* Level: [walls, sectors]                 (world/level.py)
    bsp_tree,   \* BSPTree.root                            (world/bsp.py)
    entities,   \* PhysicsSystem.entities / game entities  (physics/physics.py)
    player,     \* DoomCloneGame.player                     (entities/player.py)
    ai_controller, \* AIController: [update_timer]          (ai/ai_controller.py)
    ret,        \* value returned by the last library call
    hist        \* the last call: its name, its arguments, the state before it

vars == <<level, bsp_tree, entities, player, ai_controller, ret, hist>>

----------------------------------------------------------------------------
(* Fixed-point arithmetic *)

Unit == 10 ^ 4

Abs(a) == IF a < 0 THEN -a ELSE a
Sgn(a) == IF a < 0 THEN -1 ELSE IF a > 0 THEN 1 ELSE 0
Max2(a, b) == IF a >= b THEN a ELSE b
Min2(a, b) == IF a <= b THEN a ELSE b

\* integer quotient rounded toward zero (b # 0)
DivT(a, b) == Sgn(a) * Sgn(b) * (Abs(a) \div Abs(b))

\* x * y of two fixed-point numbers
FMul(x, y) == DivT(x * y, Unit)

\* a / b as a fixed-point number, by long division (no intermediate a * Unit)
RECURSIVE LongDiv(_, _, _, _)
LongDiv(r, b, k, acc) ==
    IF k = 0 THEN acc
    ELSE LongDiv((r * 10) % b, b, k - 1, acc * 10 + ((r * 10) \div b))

FDiv(a, b) ==
    Sgn(a) * Sgn(b) *
        ((Abs(a) \div Abs(b)) * Unit + LongDiv(Abs(a) % Abs(b), Abs(b), 4, 0))

\* floor of the square root, one hexadecimal digit at a time: the largest
\* base + d * step whose square is at most n (46340 is the largest root of a
\* 32-bit number)
IsqrtStep(n, base, step) ==
    base + step * (CHOOSE d \in 0..15 :
        /\ base + d * step <= 46340
        /\ (base + d * step) * (base + d * step) <= n
        /\ \/ d = 15
           \/ base + (d + 1) * step > 46340
           \/ (base + (d + 1) * step) * (base + (d + 1) * step) > n)

Isqrt(n) ==
    IF n <= 0 THEN 0
    ELSE IsqrtStep(n, IsqrtStep(n, IsqrtStep(n, IsqrtStep(n, 0, 4096), 256), 16), 1)

\* sqrt(a*a + b*b) of two fixed-point numbers; operands too large to square
\* are scaled down first, as a floating-point exponent would
RECURSIVE Hypot(_, _)
Hypot(a, b) ==
    IF Abs(a) > 30000 \/ Abs(b) > 30000
    THEN 10 * Hypot(DivT(a, 10), DivT(b, 10))
    ELSE Isqrt(a * a + b * b)

\* 3-component vectors [x, y, z]
Zero3 == <<0, 0, 0>>
VAdd(a, b) == <<a[1] + b[1], a[2] + b[2], a[3] + b[3]>>
VSub(a, b) == <<a[1] - b[1], a[2] - b[2], a[3] - b[3]>>
VScale(a, k) == <<FMul(a[1], k), FMul(a[2], k), FMul(a[3], k)>>
VDivN(a, n) == <<DivT(a[1], n), DivT(a[2], n), DivT(a[3], n)>>
VDot(a, b) == FMul(a[1], b[1]) + FMul(a[2], b[2]) + FMul(a[3], b[3])

----------------------------------------------------------------------------
(* Program constants *)

GRAVITY == 200000
Epsilon == 10

NONE == 0    \* Python None for a sector reference (sectors are 1, 2, ...)

----------------------------------------------------------------------------
(* AABB (physics/aabb.py) *)

AABB(min_point, max_point) == [min |-> min_point, max |-> max_point]

AABB_from_center_size(center, size) ==
    LET half_size == VDivN(size, 2)
    IN  AABB(VSub(center, half_size), VAdd(center, half_size))

AABB_get_center(a) == VDivN(VAdd(a.min, a.max), 2)
AABB_get_size(a) == VSub(a.max, a.min)
\* dtype=np.float32: a float keeps 24 significant bits
F32Significand == 24

RECURSIVE BitLen(_)
BitLen(n) == IF n = 0 THEN 0 ELSE 1 + BitLen(n \div 2)

\* the spacing of float32 values at magnitude x, in quanta of 1/Unit (the
\* model has no values between the quanta)
F32Ulp(x) ==
    LET bits == BitLen(Abs(x))
    IN  IF bits <= F32Significand THEN 1 ELSE 2 ^ (bits - F32Significand)

\* conversion to float32: round to nearest, ties to the even significand
F32Round(x) ==
    IF Abs(x) < 2 ^ F32Significand THEN x
    ELSE LET q == F32Ulp(x)
             m == Abs(x) \div q
             rem == Abs(x) - m * q
             up == rem * 2 > q \/ (rem * 2 = q /\ m % 2 = 1)
         IN  Sgn(x) * (IF up THEN m + 1 ELSE m) * q

F32Round3(a) == <<F32Round(a[1]), F32Round(a[2]), F32Round(a[3])>>

\* mutant of translate: the offset is applied twice
Mut_translate_twice(a, offset) ==
    LET off == F32Round3(offset)
    IN  AABB(F32Round3(VAdd(F32Round3(VAdd(a.min, off)), off)),
             F32Round3(VAdd(F32Round3(VAdd(a.max, off)), off)))

AABB_translate(a, offset) ==
    LET off == F32Round3(offset)
    IN  AABB(F32Round3(VAdd(a.min, off)), F32Round3(VAdd(a.max, off)))

\* Direction components smaller than one quantum of Unit are written in
\* quanta of 10^-9: TinyUnit of them make 1.0, TinyPerQuantum make 1/Unit
TinyUnit == 10 ^ 9
TinyPerQuantum == TinyUnit \div Unit

\* 1e-8 in quanta of 10^-9
TinyDirection == 10

\* the direction component the divisions use: a component whose magnitude is
\* below 1e-8 becomes 1e-8, whatever its sign
AABB_safe_component(n) == IF Abs(n) < TinyDirection THEN TinyDirection ELSE n

\* (bound - origin) / direction for a component of n * 10^-9, below one
\* quantum; the quotient is kept exact up to 20/Unit and saturates beyond,
\* far outside every scene
AABB_tiny_quotient(diff, n) ==
    LET s == AABB_safe_component(n)
    IN  Sgn(diff) * Sgn(s) * Min2(Abs(diff), 20) * (TinyUnit \div Abs(s))

\* (bound - origin) / direction for one axis
AABB_ray_quotient(diff, d) ==
    IF d = 0 THEN AABB_tiny_quotient(diff, 0)
    ELSE FDiv(diff, d)

Max3(v) == Max2(v[1], Max2(v[2], v[3]))
Min3(v) == Min2(v[1], Min2(v[2], v[3]))

\* the slab test on the quotients of the two faces of each axis
AABB_slab_test(t1, t2) ==
    LET t_near == Max3([i \in 1..3 |-> Min2(t1[i], t2[i])])
        t_far == Min3([i \in 1..3 |-> Max2(t1[i], t2[i])])
    IN  IF t_near > t_far \/ t_far < 0
        THEN [hit |-> FALSE, t_near |-> 0, t_far |-> 0]
        ELSE [hit |-> TRUE, t_near |-> t_near, t_far |-> t_far]

AABB_intersect_ray(a, origin, direction) ==
    AABB_slab_test(
        [i \in 1..3 |-> AABB_ray_quotient(a.min[i] - origin[i], direction[i])],
        [i \in 1..3 |-> AABB_ray_quotient(a.max[i] - origin[i], direction[i])])

\* intersect_ray for a direction of direction[i] + tiny[i] * 10^-9 per axis,
\* where tiny[i] is below one quantum and is 0 where direction[i] is not
AABB_quotient_with_tiny(diff, d, n) ==
    IF d = 0 THEN AABB_tiny_quotient(diff, n) ELSE FDiv(diff, d)

AABB_intersect_ray_tiny(a, origin, direction, tiny) ==
    AABB_slab_test(
        [i \in 1..3 |-> AABB_quotient_with_tiny(a.min[i] - origin[i], direction[i], tiny[i])],
        [i \in 1..3 |-> AABB_quotient_with_tiny(a.max[i] - origin[i], direction[i], tiny[i])])

----------------------------------------------------------------------------
(* Wall, Sector, Level, BSPTree (world/) *)

Wall_compute_normal(start, end) ==
    LET direction == VSub(end, start)
        nx == direction[3]
        nz == -direction[1]
        length == Hypot(nx, nz)
    IN  IF length > 0 THEN <<FDiv(nx, length), 0, FDiv(nz, length)>>
                      ELSE <<nx, 0, nz>>

Wall(start, end, sector) ==
    [start |-> start, end |-> end, sector |-> sector,
     normal |-> Wall_compute_normal(start, end)]

\* float('inf')
Inf == 2 ^ 30 + (2 ^ 30 - 1)

\* 1e-6 as a product of two lengths (in 1/Unit^2)
ParallelDenom == 100

Wall_intersects_ray(wall, origin, direction) ==
    LET x1 == wall.start[1]
        z1 == wall.start[3]
        x2 == wall.end[1]
        z2 == wall.end[3]
        x3 == origin[1]
        z3 == origin[3]
        dx == direction[1]
        dz == direction[3]
        denom == (x1 - x2) * dz - (z1 - z2) * dx
        miss == [hit |-> FALSE, distance |-> Inf, point |-> <<>>]
    IN  IF Abs(denom) < ParallelDenom THEN miss
        ELSE LET t == FDiv((x1 - x3) * dz - (z1 - z3) * dx, denom)
                 u == FDiv(-((x1 - x2) * (z1 - z3) - (z1 - z2) * (x1 - x3)), denom)
             IN  IF 0 <= t /\ t <= Unit /\ u >= 0
                 THEN [hit |-> TRUE, distance |-> u,
                       point |-> VAdd(origin, VScale(direction, u))]
                 ELSE miss

Sector(floor_height, ceiling_height) ==
    [floor_height |-> floor_height, ceiling_height |-> ceiling_height]

\* Sector.walls: the level's walls owned by sector s, in insertion order
Sector_walls(lvl, s) == SelectSeq(lvl.walls, LAMBDA w : w.sector = s)

RECURSIVE CountCrossings(_, _, _)
CountCrossings(ws, x, z) ==
    IF ws = <<>> THEN 0
    ELSE LET wall == Head(ws)
             x1 == wall.start[1]
             z1 == wall.start[3]
             x2 == wall.end[1]
             z2 == wall.end[3]
             crosses == /\ ((z1 > z) # (z2 > z))
                        /\ x < DivT((x2 - x1) * (z - z1), z2 - z1) + x1
         IN  (IF crosses THEN 1 ELSE 0) + CountCrossings(Tail(ws), x, z)

\* mutant of contains_point: any crossing counts as inside
Mut_contains_point_any_crossing(lvl, s, x, z) ==
    CountCrossings(Sector_walls(lvl, s), x, z) > 0

Sector_contains_point(lvl, s, x, z) ==
    CountCrossings(Sector_walls(lvl, s), x, z) % 2 = 1

\* no player object: the library is exercised without the game
NoPlayer == [kind |-> "none"]

\* no AI controller: no monster is driven
NoController == [kind |-> "none"]

\* no library call has returned yet
NoReturn == [kind |-> "none"]

\* BSP nodes; the absent node (Python None) is NoNode
NoNode == [kind |-> "none"]
BSPLeaf(walls, sector) == [kind |-> "leaf", walls |-> walls, sector |-> sector]

\* mutant of _build_recursive: the leaf is tagged with the last wall's sector
Mut_build_recursive_last_wall(walls, sectors) ==
    IF walls = <<>> THEN NoNode
    ELSE BSPLeaf(walls, walls[Len(walls)].sector)

BSPTree_build_recursive(walls, sectors) ==
    IF walls = <<>> THEN NoNode
    ELSE BSPLeaf(walls, walls[1].sector)

\* build(walls, sectors) on a tree whose root is `root`: the new root
BSPTree_build(root, walls, sectors) ==
    IF walls = <<>> THEN root
    ELSE BSPTree_build_recursive(walls, sectors)

\* BSPNode.__init__ with the children assigned; no partition line is <<>>
BSPNode(partition_line, front, back) ==
    [kind |-> "node", partition_line |-> partition_line,
     front |-> front, back |-> back]

\* mutant of is_point_in_front: a point on the partition line is behind it
Mut_point_in_front_strict(node, point) ==
    IF node.partition_line = <<>> THEN TRUE
    ELSE LET start == node.partition_line[1]
             end == node.partition_line[2]
         IN  (end[1] - start[1]) * (point[3] - start[3])
                - (end[3] - start[3]) * (point[1] - start[1]) > 0

BSPNode_is_point_in_front(node, point) ==
    IF node.partition_line = <<>> THEN TRUE
    ELSE LET start == node.partition_line[1]
             end == node.partition_line[2]
             dx == end[1] - start[1]
             dz == end[3] - start[3]
             px == point[1] - start[1]
             pz == point[3] - start[3]
         IN  dx * pz - dz * px >= 0

RECURSIVE BSPTree_descend(_, _, _)
BSPTree_descend(node, x, z) ==
    IF node.kind = "leaf" THEN node.sector
    ELSE LET next == IF BSPNode_is_point_in_front(node, <<x, 0, z>>)
                     THEN (IF node.front.kind # "none" THEN node.front ELSE node.back)
                     ELSE (IF node.back.kind # "none" THEN node.back ELSE node.front)
         IN  IF next.kind = "none" THEN NONE ELSE BSPTree_descend(next, x, z)

BSPTree_find_sector_at(root, x, z) ==
    IF root.kind = "none" THEN NONE ELSE BSPTree_descend(root, x, z)

----------------------------------------------------------------------------
(* CollisionSystem (physics/collision.py) *)

\* 1e-6 as a squared length (in 1/Unit^2)
DegenerateLengthSq == 100

NoCollision == [collides |-> FALSE, penetration |-> 0, normal |-> Zero3]

\* mutant of check_aabb_wall_collision: a near-zero-length wall is tested
\* as the point wall.start
Mut_check_degenerate_as_point(aabb, wall) ==
    LET center == AABB_get_center(aabb)
        size == AABB_get_size(aabb)
        radius == DivT(Max2(size[1], size[3]), 2)
        dx == wall.end[1] - wall.start[1]
        dz == wall.end[3] - wall.start[3]
        length_sq == dx * dx + dz * dz
        on_line == Min2(Max2(0, (center[1] - wall.start[1]) * dx
                                    + (center[3] - wall.start[3]) * dz), length_sq)
        proj_x == wall.start[1] + (IF length_sq = 0 THEN 0 ELSE DivT(on_line * dx, length_sq))
        proj_z == wall.start[3] + (IF length_sq = 0 THEN 0 ELSE DivT(on_line * dz, length_sq))
        distance == Hypot(center[1] - proj_x, center[3] - proj_z)
    IN  IF distance < radius
        THEN [collides |-> TRUE, penetration |-> radius - distance,
              normal |-> IF distance > 0
                         THEN <<FDiv(center[1] - proj_x, distance), 0,
                                FDiv(center[3] - proj_z, distance)>>
                         ELSE wall.normal]
        ELSE NoCollision

\* mutant of check_aabb_wall_collision: the projection is not clamped to the
\* segment
Mut_check_unclamped(aabb, wall) ==
    LET center == AABB_get_center(aabb)
        size == AABB_get_size(aabb)
        radius == DivT(Max2(size[1], size[3]), 2)
        dx == wall.end[1] - wall.start[1]
        dz == wall.end[3] - wall.start[3]
        length_sq == dx * dx + dz * dz
    IN  IF length_sq < DegenerateLengthSq THEN NoCollision
        ELSE LET t == FDiv((center[1] - wall.start[1]) * dx
                            + (center[3] - wall.start[3]) * dz, length_sq)
                 dist_x == center[1] - (wall.start[1] + FMul(t, dx))
                 dist_z == center[3] - (wall.start[3] + FMul(t, dz))
                 distance == Hypot(dist_x, dist_z)
             IN  IF distance < radius
                 THEN [collides |-> TRUE,
                       penetration |-> radius - distance,
                       normal |-> IF distance > 0
                                  THEN <<FDiv(dist_x, distance), 0,
                                         FDiv(dist_z, distance)>>
                                  ELSE wall.normal]
                 ELSE NoCollision

CollisionSystem_check_aabb_wall_collision(aabb, wall) ==
    LET center == AABB_get_center(aabb)
        size == AABB_get_size(aabb)
        radius == DivT(Max2(size[1], size[3]), 2)
        x1 == wall.start[1]
        z1 == wall.start[3]
        x2 == wall.end[1]
        z2 == wall.end[3]
        cx == center[1]
        cz == center[3]
        dx == x2 - x1
        dz == z2 - z1
        length_sq == dx * dx + dz * dz
    IN  IF length_sq < DegenerateLengthSq THEN NoCollision
        ELSE LET t == Max2(0, Min2(Unit,
                          FDiv((cx - x1) * dx + (cz - z1) * dz, length_sq)))
                 proj_x == x1 + FMul(t, dx)
                 proj_z == z1 + FMul(t, dz)
                 dist_x == cx - proj_x
                 dist_z == cz - proj_z
                 distance == Hypot(dist_x, dist_z)
             IN  IF distance < radius
                 THEN [collides |-> TRUE,
                       penetration |-> radius - distance,
                       \* distance > 1e-6: any distance of at least 1/Unit
                       normal |-> IF distance > 0
                                  THEN <<FDiv(dist_x, distance), 0,
                                         FDiv(dist_z, distance)>>
                                  ELSE wall.normal]
                 ELSE NoCollision

\* mutant of resolve_aabb_wall_collision: pushes against the normal
Mut_resolve_pushes_inward(position, aabb, wall) ==
    LET c == CollisionSystem_check_aabb_wall_collision(
                 AABB_translate(aabb, position), wall)
    IN  IF c.collides
        THEN VSub(position, VScale(c.normal, c.penetration + Epsilon))
        ELSE position

CollisionSystem_resolve_aabb_wall_collision(position, aabb, wall) ==
    LET aabb_at_pos == AABB_translate(aabb, position)
        c == CollisionSystem_check_aabb_wall_collision(aabb_at_pos, wall)
    IN  IF c.collides
        THEN VAdd(position, VScale(c.normal, c.penetration + Epsilon))
        ELSE position

\* mutant of the slide loop body: the velocity is never projected
Mut_slide_keeps_velocity(m, aabb, wall, k) ==
    LET c == CollisionSystem_check_aabb_wall_collision(
                 AABB_translate(aabb, m.position), wall)
    IN  IF c.collides
        THEN [position |-> VAdd(m.position, VScale(c.normal, c.penetration + Epsilon)),
              velocity |-> m.velocity,
              touched |-> Append(m.touched, k)]
        ELSE m

\* slide_collision, loop body for the k-th wall.  m holds new_position and
\* velocity; m.touched lists the walls that collided so far (history only)
CollisionSystem_slide_wall(m, aabb, wall, k) ==
    LET aabb_at_new_pos == AABB_translate(aabb, m.position)
        c == CollisionSystem_check_aabb_wall_collision(aabb_at_new_pos, wall)
        vel_along_normal == VDot(m.velocity, c.normal)
    IN  IF c.collides
        THEN [position |-> VAdd(m.position, VScale(c.normal, c.penetration + Epsilon)),
              velocity |-> IF vel_along_normal < 0
                           THEN VSub(m.velocity, VScale(c.normal, vel_along_normal))
                           ELSE m.velocity,
              touched |-> Append(m.touched, k)]
        ELSE m

RECURSIVE CollisionSystem_slide_from(_, _, _, _)
CollisionSystem_slide_from(m, aabb, walls, k) ==
    IF k > Len(walls) THEN m
    ELSE CollisionSystem_slide_from(
            CollisionSystem_slide_wall(m, aabb, walls[k], k), aabb, walls, k + 1)

CollisionSystem_slide_collision(position, velocity, aabb, walls, dt) ==
    CollisionSystem_slide_from(
        [position |-> VAdd(position, VScale(velocity, dt)),
         velocity |-> velocity, touched |-> <<>>],
        aabb, walls, 1)

----------------------------------------------------------------------------
(* Entity and PhysicsComponent (entities/entity.py, physics/physics.py) *)

PhysicsComponent(mass, use_gravity) ==
    [velocity |-> Zero3, acceleration |-> Zero3, mass |-> mass,
     use_gravity |-> use_gravity, on_ground |-> FALSE]

Entity(position, aabb, physics) ==
    [position |-> position, aabb |-> aabb, physics |-> physics]

\* Entity.__init__: the default box is centred on the local origin
DefaultAABB == AABB_from_center_size(<<0, 0, 0>>, <<5000, 10000, 5000>>)
\* Imp.__init__: the box stands on the local origin
ImpAABB == AABB_from_center_size(<<0, 8000, 0>>, <<6000, 16000, 6000>>)

\* mutant of apply_force: the force overwrites the acceleration
Mut_apply_force_overwrites(p, force) ==
    [p EXCEPT !.acceleration =
        <<FDiv(force[1], p.mass), FDiv(force[2], p.mass), FDiv(force[3], p.mass)>>]

PhysicsComponent_apply_force(p, force) ==
    [p EXCEPT !.acceleration =
        VAdd(@, <<FDiv(force[1], p.mass), FDiv(force[2], p.mass), FDiv(force[3], p.mass)>>)]

PhysicsComponent_apply_impulse(p, impulse) ==
    [p EXCEPT !.velocity =
        VAdd(@, <<FDiv(impulse[1], p.mass), FDiv(impulse[2], p.mass), FDiv(impulse[3], p.mass)>>)]

\* velocity *= 0.9
Damp(v) == DivT(v * 9, 10)

PhysicsComponent_update(p, dt) ==
    LET a1 == IF p.use_gravity /\ ~p.on_ground
              THEN [p.acceleration EXCEPT ![2] = @ - GRAVITY]
              ELSE p.acceleration
        v1 == VAdd(p.velocity, VScale(a1, dt))
        v2 == IF p.on_ground THEN <<Damp(v1[1]), v1[2], Damp(v1[3])>> ELSE v1
    IN  [p EXCEPT !.velocity = v2, !.acceleration = Zero3]

PhysicsComponent_get_displacement(p, dt) == VScale(p.velocity, dt)

\* mutant of _check_ground_collision: the floor clamp forgets to zero the
\* vertical velocity
Mut_check_ground_keeps_velocity(root, lvl, e) ==
    LET sector == BSPTree_find_sector_at(root, e.position[1], e.position[3])
    IN  IF sector = NONE THEN e
        ELSE LET sec == lvl.sectors[sector]
                 e1 == IF e.position[2] <= sec.floor_height
                       THEN [e EXCEPT !.position[2] = sec.floor_height,
                                      !.physics.on_ground = TRUE]
                       ELSE [e EXCEPT !.physics.on_ground = FALSE]
                 entity_top == e1.position[2] + AABB_get_size(e1.aabb)[2]
             IN  IF entity_top >= sec.ceiling_height
                 THEN [e1 EXCEPT !.position[2] =
                                     sec.ceiling_height - AABB_get_size(e1.aabb)[2],
                                 !.physics.velocity[2] = 0]
                 ELSE e1

\* _check_ground_collision for entity e against the tree with this root
PhysicsSystem_check_ground_collision(root, lvl, e) ==
    LET sector == BSPTree_find_sector_at(root, e.position[1], e.position[3])
    IN  IF sector = NONE THEN e
        ELSE LET sec == lvl.sectors[sector]
                 e1 == IF e.position[2] <= sec.floor_height
                       THEN [e EXCEPT !.position[2] = sec.floor_height,
                                      !.physics.velocity[2] = 0,
                                      !.physics.on_ground = TRUE]
                       ELSE [e EXCEPT !.physics.on_ground = FALSE]
                 entity_top == e1.position[2] + AABB_get_size(e1.aabb)[2]
             IN  IF entity_top >= sec.ceiling_height
                 THEN [e1 EXCEPT !.position[2] =
                                     sec.ceiling_height - AABB_get_size(e1.aabb)[2],
                                 !.physics.velocity[2] = 0]
                 ELSE e1

\* PhysicsSystem.update, loop body up to the ground check: the component's
\* update, then the displacement added to the entity's position
PhysicsSystem_integrate_entity(e, dt) ==
    LET e1 == [e EXCEPT !.physics = PhysicsComponent_update(@, dt)]
    IN  [e1 EXCEPT !.position =
            VAdd(@, PhysicsComponent_get_displacement(e1.physics, dt))]

\* mutant of the loop body: the ground check runs before the integration
Mut_update_entity_clamp_first(root, lvl, e, dt) ==
    PhysicsSystem_integrate_entity(
        PhysicsSystem_check_ground_collision(root, lvl, e), dt)

\* the body of PhysicsSystem.update's loop for one entity
PhysicsSystem_update_entity(root, lvl, e, dt) ==
    PhysicsSystem_check_ground_collision(root, lvl,
        PhysicsSystem_integrate_entity(e, dt))

\* PhysicsSystem.update: the entities are stepped one after the other
RECURSIVE PhysicsSystem_update_from(_, _, _, _, _)
PhysicsSystem_update_from(root, lvl, ents, i, dt) ==
    IF i > Len(ents) THEN ents
    ELSE PhysicsSystem_update_from(root, lvl,
            [ents EXCEPT ![i] = PhysicsSystem_update_entity(root, lvl, ents[i], dt)],
            i + 1, dt)

\* mutant of PhysicsSystem.update: the entities share one PhysicsComponent,
\* the first entity's
Mut_update_shared_component(root, lvl, ents, dt) ==
    LET stepped == PhysicsSystem_update_from(root, lvl, ents, 1, dt)
    IN  [k \in DOMAIN ents |-> [stepped[k] EXCEPT !.physics = stepped[1].physics]]

PhysicsSystem_update(root, lvl, ents, dt) ==
    PhysicsSystem_update_from(root, lvl, ents, 1, dt)

----------------------------------------------------------------------------
(* Raycast (physics/raycast.py) *)

\* np.linalg.norm of a 3-vector, and v / norm(v)
Norm3(v) == Isqrt(v[1] * v[1] + v[2] * v[2] + v[3] * v[3])
Normalize3(v) ==
    LET n == Norm3(v) IN <<FDiv(v[1], n), FDiv(v[2], n), FDiv(v[3], n)>>

\* RaycastHit(); entity is the index of the entity hit, 0 for None
RaycastHit ==
    [kind |-> "hit", hit |-> FALSE, distance |-> Inf, point |-> <<>>,
     normal |-> <<>>, entity |-> 0]

\* mutant of the wall loop body: every wall in range replaces the candidate
Mut_wall_candidate_last_wins(closest_hit, wall, origin, direction, max_distance) ==
    LET r == Wall_intersects_ray(wall, origin, direction)
    IN  IF r.hit /\ r.distance <= max_distance
        THEN [closest_hit EXCEPT !.hit = TRUE, !.distance = r.distance,
                                 !.point = r.point, !.normal = wall.normal,
                                 !.entity = 0]
        ELSE closest_hit

\* cast_ray, body of the loop over level.walls
Raycast_wall_candidate(closest_hit, wall, origin, direction, max_distance) ==
    LET r == Wall_intersects_ray(wall, origin, direction)
    IN  IF r.hit /\ r.distance < closest_hit.distance /\ r.distance <= max_distance
        THEN [closest_hit EXCEPT !.hit = TRUE, !.distance = r.distance,
                                 !.point = r.point, !.normal = wall.normal,
                                 !.entity = 0]
        ELSE closest_hit

\* cast_ray, body of the loop over entities: the entity's own aabb is tested
Raycast_entity_candidate(closest_hit, entity, k, origin, direction, max_distance) ==
    LET r == AABB_intersect_ray(entity.aabb, origin, direction)
    IN  IF r.hit /\ r.t_near < closest_hit.distance /\ r.t_near <= max_distance
        THEN LET point == VAdd(origin, VScale(direction, r.t_near))
                 normal == VSub(point, entity.position)
             IN  [closest_hit EXCEPT
                     !.hit = TRUE, !.distance = r.t_near, !.point = point,
                     !.normal = IF Norm3(normal) > 0 THEN Normalize3(normal)
                                                     ELSE normal,
                     !.entity = k]
        ELSE closest_hit

RECURSIVE Raycast_walls_from(_, _, _, _, _, _)
Raycast_walls_from(closest_hit, walls, k, origin, direction, max_distance) ==
    IF k > Len(walls) THEN closest_hit
    ELSE Raycast_walls_from(
            Raycast_wall_candidate(closest_hit, walls[k], origin, direction,
                                   max_distance),
            walls, k + 1, origin, direction, max_distance)

RECURSIVE Raycast_entities_from(_, _, _, _, _, _)
Raycast_entities_from(closest_hit, ents, k, origin, direction, max_distance) ==
    IF k > Len(ents) THEN closest_hit
    ELSE Raycast_entities_from(
            Raycast_entity_candidate(closest_hit, ents[k], k, origin, direction,
                                     max_distance),
            ents, k + 1, origin, direction, max_distance)

Raycast_cast_ray(origin, direction, max_distance, lvl, ents) ==
    LET dir == Normalize3(direction)
        after_walls == Raycast_walls_from(RaycastHit, lvl.walls, 1, origin, dir,
                                          max_distance)
    IN  Raycast_entities_from(after_walls, ents, 1, origin, dir, max_distance)

\* line_of_sight: the result is a record with the returned boolean
Raycast_line_of_sight(start, end, lvl, ents) ==
    LET direction == VSub(end, start)
        distance == Norm3(direction)
        hit == Raycast_cast_ray(start, Normalize3(direction), distance, lvl, ents)
    IN  [kind |-> "sight", clear |-> (~hit.hit \/ hit.distance >= distance)]

----------------------------------------------------------------------------
(* Hitscan fire (entities/weapon.py, entities/monster.py, game.py) *)

\* Pistol damage and Imp health (plain numbers, not lengths)
PistolDamage == 10
ImpHealth == 80

\* references to objects: None, the player, the object at place k of the store
NoTarget == [kind |-> "none"]
PlayerRef == [kind |-> "player"]
EntityRef(k) == [kind |-> "entity", k |-> k]

\* Monster.__init__ followed by set_target(player), as _spawn_test_monsters
\* does: the target is the player and the AI state is chase.  Health and
\* damage are plain numbers; speeds, ranges, rates and times are fixed-point.
Monster(position, aabb, health) ==
    [kind |-> "monster", species |-> "monster",
     position |-> position, aabb |-> aabb, physics |-> PhysicsComponent(Unit, TRUE),
     health |-> health, max_health |-> health, damage |-> 10,
     move_speed |-> 2 * Unit, active |-> TRUE, dead |-> FALSE,
     ai_state |-> "chase", target |-> PlayerRef,
     attack_cooldown |-> 0, attack_rate |-> Unit, attack_range |-> 15000,
     sight_range |-> 15 * Unit, is_ranged |-> FALSE,
     preferred_range |-> 15000, min_range |-> 5000, has_entity_list |-> FALSE]

\* F applied to the value of x (x is evaluated once, however often F uses it)
Bind(x, F(_)) == CHOOSE r \in { F(v) : v \in {x} } : TRUE

\* Entity.destroy
Entity_destroy(e) == [e EXCEPT !.dead = TRUE, !.active = FALSE]

\* Monster.die
Monster_die(m) == Entity_destroy([m EXCEPT !.ai_state = "death"])

\* mutant of take_damage: the health is floored at 0 but die is not called
Mut_take_damage_without_die(m, amount, attacker) ==
    IF m.health - amount <= 0
    THEN [m EXCEPT !.health = 0]
    ELSE [m EXCEPT !.health = m.health - amount]

\* Monster.take_damage; attacker is a reference (NoTarget is None)
Monster_take_damage(m, amount, attacker) ==
    IF m.health - amount <= 0
    THEN Monster_die([m EXCEPT !.health = 0])
    ELSE LET m1 == [m EXCEPT !.health = m.health - amount]
         IN  IF attacker # NoTarget /\ m1.target = NoTarget
             THEN [m1 EXCEPT !.target = attacker,
                             !.ai_state = IF @ = "idle" THEN "chase" ELSE @]
             ELSE m1

\* Monster.set_target
Monster_set_target(m, target) ==
    [m EXCEPT !.target = target, !.ai_state = IF @ = "idle" THEN "chase" ELSE @]

\* HitscanWeapon._do_fire: the shot is queued on the player
HitscanWeapon_do_fire(p, direction, damage) ==
    [p EXCEPT !.weapon_fire_data =
        Append(@, [origin |-> p.camera_position, direction |-> direction,
                   damage |-> damage])]

\* Weapon.__init__ with no upgrade applied (fire_rate is base_fire_rate);
\* do_fire tells which _do_fire the class has
Weapon(name, damage, fire_rate, ammo_type, ammo_per_shot, do_fire) ==
    [name |-> name, damage |-> damage, fire_rate |-> fire_rate,
     ammo_type |-> ammo_type, ammo_per_shot |-> ammo_per_shot,
     do_fire |-> do_fire, cooldown |-> 0, reload_time |-> 0]

\* no weapon equipped (current_weapon is None)
NoWeapon == [name |-> "none"]

Pistol == Weapon("Pistol", PistolDamage, 3 * Unit, "bullets", 1, "hitscan")
\* Shotgun._do_fire only prints: no shot is queued
Shotgun == Weapon("Shotgun", PistolDamage, 15000, "shells", 1, "print")
Chaingun == Weapon("Chaingun", PistolDamage, 10 * Unit, "bullets", 1, "hitscan")

\* Weapon.update
Weapon_update(w, dt) ==
    [w EXCEPT !.cooldown = IF @ > 0 THEN @ - dt ELSE @,
              !.reload_time = IF @ > 0 THEN @ - dt ELSE @]

\* player.ammo.get(ammo_type, 0)
Ammo_get(p, ammo_type) ==
    IF ammo_type \in DOMAIN p.ammo THEN p.ammo[ammo_type] ELSE 0

\* Weapon.can_fire; None is the ammo type "none"
Weapon_can_fire(w, p) ==
    /\ ~(w.cooldown > 0 \/ w.reload_time > 0)
    /\ ~(w.ammo_type # "none" /\ Ammo_get(p, w.ammo_type) < w.ammo_per_shot)

\* mutant of fire: the cooldown is not looked at
Mut_fire_ignores_cooldown(p, direction) ==
    LET w == p.current_weapon
    IN  IF w.ammo_type # "none" /\ Ammo_get(p, w.ammo_type) < w.ammo_per_shot THEN p
        ELSE LET p1 == IF w.ammo_type # "none"
                       THEN [p EXCEPT !.ammo[w.ammo_type] = @ - w.ammo_per_shot]
                       ELSE p
                 p2 == [p1 EXCEPT !.current_weapon.cooldown = FDiv(Unit, w.fire_rate)]
             IN  IF w.do_fire = "hitscan"
                 THEN HitscanWeapon_do_fire(p2, direction, w.damage)
                 ELSE p2

\* Weapon.fire of the player's current weapon; direction is the camera
\* direction with the random spread of _do_fire added
Weapon_fire(p, direction) ==
    LET w == p.current_weapon
    IN  IF ~Weapon_can_fire(w, p) THEN p
        ELSE LET p1 == IF w.ammo_type # "none"
                       THEN [p EXCEPT !.ammo[w.ammo_type] = @ - w.ammo_per_shot]
                       ELSE p
                 p2 == [p1 EXCEPT !.current_weapon.cooldown = FDiv(Unit, w.fire_rate)]
             IN  IF w.do_fire = "hitscan"
                 THEN HitscanWeapon_do_fire(p2, direction, w.damage)
                 ELSE p2

\* Player.fire_weapon
Player_fire_weapon(p, direction) ==
    IF p.current_weapon # NoWeapon THEN Weapon_fire(p, direction) ELSE p

\* _handle_weapon_fire, loop over self.entities: c = [closest_hit, closest_dist]
RECURSIVE Game_closest_entity_from(_, _, _, _)
Game_closest_entity_from(c, ents, k, fire_data) ==
    IF k > Len(ents) THEN c
    ELSE LET entity == ents[k]
             r == AABB_intersect_ray(AABB_translate(entity.aabb, entity.position),
                                     fire_data.origin, fire_data.direction)
             next == IF entity.active /\ r.hit /\ r.t_near >= 0
                        /\ r.t_near < c.closest_dist
                     THEN [closest_hit |-> k, closest_dist |-> r.t_near]
                     ELSE c
         IN  Game_closest_entity_from(next, ents, k + 1, fire_data)

\* _handle_weapon_fire, body of the loop over the shots: g = [entities, kills]
Game_handle_shot(shot_state, fire_data, lvl) ==
    Bind(shot_state, LAMBDA g :
        Bind(Game_closest_entity_from([closest_hit |-> 0, closest_dist |-> Inf],
                                      g.entities, 1, fire_data), LAMBDA c :
            IF c.closest_hit = 0 THEN g
            ELSE IF g.entities[c.closest_hit].kind # "monster" THEN g
            ELSE LET hit == Monster_take_damage(g.entities[c.closest_hit],
                                                fire_data.damage, PlayerRef)
                 IN  [entities |-> [g.entities EXCEPT ![c.closest_hit] = hit],
                      kills |-> IF g.entities[c.closest_hit].health > 0
                                   /\ hit.health <= 0
                                THEN g.kills + 1 ELSE g.kills]))

RECURSIVE Game_handle_shots_from(_, _, _, _)
Game_handle_shots_from(g, shots, i, lvl) ==
    IF i > Len(shots) THEN g
    ELSE Game_handle_shots_from(Game_handle_shot(g, shots[i], lvl), shots, i + 1, lvl)

\* _handle_weapon_fire: returns [entities, kills]
Game_handle_weapon_fire(self_player, ents, lvl) ==
    Bind(self_player, LAMBDA p :
        Game_handle_shots_from([entities |-> ents, kills |-> p.kills],
                               p.weapon_fire_data, 1, lvl))

----------------------------------------------------------------------------
(* One frame of the game (core/engine.py, game.py, entities/player.py,
   input/input_manager.py, ai/ai_controller.py).

   The objects of the game live in one store, entities; the lists that hold
   references to them are flags of the object: in_game (game.entities),
   in_physics (PhysicsSystem.entities) and in_ai (AIController.monsters).
   The player is registered with the physics system too.  A frame works on
   g = [player, entities, ai_controller, log, strafe, error]: log records
   the calls of perform_attack (with the caller's health), on_hit (with the
   projectile's active flag), take_damage by a projectile and on_pickup; strafe holds the two strafe signs derived from time.time();
   error is the exception that ended the frame, if any. *)

CAMERA_HEIGHT == 11000
PLAYER_SPEED == 50000
PLAYER_SPRINT_MULTIPLIER == 15000
PLAYER_RADIUS == 3000
PLAYER_HEIGHT == 17500
PLAYER_MAX_HEALTH == 100
PLAYER_MAX_ARMOR == 100
JUMP_VELOCITY == 80000
TacticalUpdateInterval == 5000

PlayerAABB ==
    AABB_from_center_size(<<0, PLAYER_HEIGHT \div 2, 0>>,
                          <<PLAYER_RADIUS * 2, PLAYER_HEIGHT, PLAYER_RADIUS * 2>>)

\* Player.__init__, with the camera turned to -Z as DoomCloneGame does
Player(position) ==
    [kind |-> "player", position |-> position, aabb |-> PlayerAABB,
     physics |-> PhysicsComponent(Unit, TRUE),
     health |-> PLAYER_MAX_HEALTH * Unit, armor |-> 0,
     max_health |-> PLAYER_MAX_HEALTH * Unit, max_armor |-> PLAYER_MAX_ARMOR * Unit,
     move_forward |-> 0, move_right |-> 0, sprinting |-> FALSE,
     camera_forward |-> <<0, 0, -Unit>>, camera_right |-> <<Unit, 0, 0>>,
     camera_position |-> VAdd(position, <<0, CAMERA_HEIGHT, 0>>),
     current_weapon |-> Pistol,
     ammo |-> [t \in {"bullets", "shells", "rockets", "cells"} |->
                IF t = "bullets" THEN 50 ELSE 0],
     weapon_fire_data |-> <<>>, kills |-> 0, damage_flash |-> 0]

\* mutant of take_damage: the armor absorbs the whole amount
Mut_take_damage_armor_absorbs_all(p, amount) ==
    LET armor_absorb == IF p.armor > 0 THEN Min2(amount, p.armor) ELSE 0
        health == p.health - (amount - armor_absorb)
    IN  [p EXCEPT !.damage_flash = 3000,
                  !.armor = @ - armor_absorb,
                  !.health = IF health <= 0 THEN 0 ELSE health]

\* Player.take_damage (die only prints); health and armor are fixed-point
\* numbers, amount * 0.5 is exact for an even number of quanta
Player_take_damage(p, amount) ==
    LET armor_absorb == IF p.armor > 0 THEN Min2(DivT(amount, 2), p.armor) ELSE 0
        health == p.health - (amount - armor_absorb)
    IN  [p EXCEPT !.damage_flash = 3000,
                  !.armor = @ - armor_absorb,
                  !.health = IF health <= 0 THEN 0 ELSE health]

Player_heal(p, amount) == [p EXCEPT !.health = Min2(@ + amount, p.max_health)]
Player_add_armor(p, amount) == [p EXCEPT !.armor = Min2(@ + amount, p.max_armor)]

\* Player.add_ammo
Player_add_ammo(p, ammo_type, amount) ==
    IF ammo_type \in DOMAIN p.ammo THEN [p EXCEPT !.ammo[ammo_type] = @ + amount] ELSE p

\* Imp.__init__, set_target(player) and entity_list = game.entities
Imp(position) ==
    [Monster(position, ImpAABB, ImpHealth) EXCEPT
        !.species = "imp", !.damage = 8, !.move_speed = 25000,
        !.is_ranged = TRUE, !.attack_range = 10 * Unit,
        !.preferred_range = 8 * Unit, !.min_range = 5 * Unit,
        !.attack_rate = 8000, !.has_entity_list = TRUE]

\* Demon.__init__ and set_target(player)
Demon(position) ==
    [Monster(position, AABB_from_center_size(<<0, 7000, 0>>, <<8000, 14000, 8000>>),
             60) EXCEPT
        !.species = "demon", !.damage = 15, !.move_speed = 3 * Unit,
        !.attack_range = 2 * Unit, !.preferred_range = 15000, !.min_range = 0,
        !.attack_rate = 15000]

\* Cacodemon.__init__ and set_target(player)
Cacodemon(position) ==
    [Monster(position, AABB_from_center_size(<<0, Unit, 0>>, <<Unit, Unit, Unit>>),
             400) EXCEPT
        !.species = "cacodemon", !.damage = 15, !.move_speed = 3 * Unit,
        !.attack_range = 12 * Unit, !.attack_rate = Unit,
        !.physics.use_gravity = FALSE]

\* v / norm(v) if norm(v) > 0
NormalizeIfNonzero(v) == IF Norm3(v) > 0 THEN Normalize3(v) ELSE v

\* Projectile.__init__
Projectile(position, direction, speed, damage, owner) ==
    [kind |-> "projectile", position |-> position,
     aabb |-> AABB_from_center_size(Zero3, <<2000, 2000, 2000>>),
     direction |-> NormalizeIfNonzero(direction), speed |-> speed,
     damage |-> damage, owner |-> owner, lifetime |-> 5 * Unit,
     active |-> TRUE, dead |-> FALSE]

\* Fireball.__init__
Fireball(position, direction, owner) ==
    Projectile(position, direction, 10 * Unit, 3, owner)

\* Item.__init__ of HealthPack, ArmorBonus (ammo_type none) and AmmoBox;
\* amount is a plain number
Item(species, position, ammo_type, amount) ==
    [kind |-> "item", species |-> species, position |-> position,
     aabb |-> AABB_from_center_size(<<0, 3000, 0>>, <<5000, 6000, 5000>>),
     pickup_range |-> Unit, ammo_type |-> ammo_type,
     amount |-> amount, active |-> TRUE, dead |-> FALSE]

\* an object and the lists that hold it: game.entities, PhysicsSystem.entities
\* and AIController.monsters
Registered(e, in_game, in_physics, in_ai) ==
    e @@ [in_game |-> in_game, in_physics |-> in_physics, in_ai |-> in_ai]

\* None for a position
NoPosition == <<>>

\* AIController.add_monster on a registered object
AIController_add_monster(e) ==
    [e EXCEPT !.in_ai = TRUE]
        @@ [ai_data |-> [flanking_target |-> NoPosition,
                         retreat_position |-> NoPosition,
                         aggression_level |-> Unit]]

\* a monster that has died: take_damage and die have run on it
DeadMonster(position, aabb, in_game) ==
    Registered(Monster_die(Monster(position, aabb, 0)), in_game, TRUE, in_game)

\* np.linalg.norm of a 3-vector of any size
Distance3(v) == Hypot(Hypot(v[1], v[3]), v[2])

\* Entity.distance_to
Entity_distance_to(a, b) == Distance3(VSub(a.position, b.position))

\* direction[1] = 0, then direction / norm if the norm is positive
HorizontalDirection(v) ==
    LET n == Hypot(v[1], v[3])
    IN  IF n > 0 THEN <<FDiv(v[1], n), 0, FDiv(v[3], n)>> ELSE <<v[1], 0, v[3]>>

\* the object a reference stands for
Deref(g, ref) == IF ref = PlayerRef THEN g.player ELSE g.entities[ref.k]

\* g with the event appended to the record of calls
Logged(g, event) == [g EXCEPT !.log = Append(@, event)]

\* Imp.perform_attack of the monster at place k
Imp_perform_attack(g, k) ==
    LET m == g.entities[k]
        direction == HorizontalDirection(VSub(Deref(g, m.target).position, m.position))
        spawn_pos == [VAdd(m.position, VScale(direction, 5000))
                        EXCEPT ![2] = m.position[2] + Unit]
        fireball == Registered(Fireball(spawn_pos, direction, EntityRef(k)),
                               TRUE, FALSE, FALSE)
    IN  IF m.target = NoTarget \/ ~m.has_entity_list THEN g
        ELSE [g EXCEPT !.entities = Append(@, fireball)]

\* Monster.perform_attack of the monster at place k (Imp overrides it); the
\* call is recorded with the health of the caller
Monster_perform_attack(g, k) ==
    Bind(Logged(g, [ev |-> "perform_attack", who |-> k,
                    health |-> g.entities[k].health]), LAMBDA g1 :
        LET m == g1.entities[k]
        IN  IF m.species = "imp" THEN Imp_perform_attack(g1, k)
            ELSE IF m.target = NoTarget THEN g1
            ELSE IF m.target = PlayerRef
            THEN [g1 EXCEPT !.player = Player_take_damage(@, m.damage * Unit)]
            ELSE IF g1.entities[m.target.k].kind # "monster" THEN g1
            ELSE [g1 EXCEPT !.entities[m.target.k] =
                    Monster_take_damage(@, m.damage, NoTarget)])

\* if self.attack_cooldown <= 0: perform_attack, cooldown = 1 / attack_rate
Monster_attack_if_ready(g, k) ==
    IF g.entities[k].attack_cooldown > 0 THEN g
    ELSE Bind(Monster_perform_attack(g, k), LAMBDA g1 :
            [g1 EXCEPT !.entities[k].attack_cooldown =
                FDiv(Unit, g1.entities[k].attack_rate)])

\* physics.velocity[0] = vx, physics.velocity[2] = vz
WithVelocityXZ(g, k, vx, vz) ==
    [g EXCEPT !.entities[k].physics.velocity[1] = vx,
              !.entities[k].physics.velocity[3] = vz]

\* Monster._update_idle
Monster_update_idle(g, k) ==
    LET m == g.entities[k]
    IN  IF m.target # NoTarget
           /\ Entity_distance_to(m, Deref(g, m.target)) < m.sight_range
        THEN [g EXCEPT !.entities[k].ai_state = "chase"]
        ELSE g

\* Monster._update_chase, branch of a ranged monster; sign is the strafe
\* sign read off the clock
Monster_chase_ranged(g, k, distance, direction, sign) ==
    LET m == g.entities[k]
        speed == m.move_speed
    IN  IF distance < m.min_range
        THEN Monster_attack_if_ready(
                WithVelocityXZ(g, k, FMul(FMul(-direction[1], speed), 8000),
                                     FMul(FMul(-direction[3], speed), 8000)), k)
        ELSE IF distance <= m.attack_range
        THEN LET sx == FMul(FMul(-direction[3], speed), 6000) * sign
                 sz == FMul(FMul(direction[1], speed), 6000) * sign
                 back == distance < m.preferred_range
                 vx == IF back THEN sx - FMul(FMul(direction[1], speed), 3000) ELSE sx
                 vz == IF back THEN sz - FMul(FMul(direction[3], speed), 3000) ELSE sz
             IN  Monster_attack_if_ready(WithVelocityXZ(g, k, vx, vz), k)
        ELSE WithVelocityXZ(g, k, FMul(direction[1], speed), FMul(direction[3], speed))

\* Monster._update_chase, branch of a melee monster
Monster_chase_melee(g, k, distance, direction) ==
    LET m == g.entities[k]
        speed_multiplier == IF distance < 3 * Unit THEN 8000
                            ELSE IF distance > 5 * Unit THEN 12000 ELSE Unit
    IN  IF distance <= m.attack_range
        THEN Monster_attack_if_ready(WithVelocityXZ(g, k, 0, 0), k)
        ELSE WithVelocityXZ(g, k,
                FMul(FMul(direction[1], m.move_speed), speed_multiplier),
                FMul(FMul(direction[3], m.move_speed), speed_multiplier))

\* Monster._update_chase (the rotation is not modelled)
Monster_update_chase(g, k, sign) ==
    LET m == g.entities[k]
    IN  IF m.target = NoTarget THEN [g EXCEPT !.entities[k].ai_state = "idle"]
        ELSE Bind(Entity_distance_to(m, Deref(g, m.target)), LAMBDA distance :
            IF distance > DivT(m.sight_range * 3, 2)
            THEN [g EXCEPT !.entities[k].ai_state = "idle",
                           !.entities[k].target = NoTarget]
            ELSE Bind(HorizontalDirection(
                        VSub(Deref(g, m.target).position, m.position)),
                      LAMBDA direction :
                    IF m.is_ranged
                    THEN Monster_chase_ranged(g, k, distance, direction, sign)
                    ELSE Monster_chase_melee(g, k, distance, direction)))

\* Cacodemon._update_chase
Cacodemon_update_chase(g, k) ==
    LET m == g.entities[k]
    IN  IF m.target = NoTarget THEN [g EXCEPT !.entities[k].ai_state = "idle"]
        ELSE Bind(Entity_distance_to(m, Deref(g, m.target)), LAMBDA distance :
            IF distance > DivT(m.sight_range * 3, 2)
            THEN [g EXCEPT !.entities[k].ai_state = "idle",
                           !.entities[k].target = NoTarget]
            ELSE IF distance <= m.attack_range
            THEN [g EXCEPT !.entities[k].ai_state = "attack",
                           !.entities[k].physics.velocity = Zero3]
            ELSE LET direction == VSub(Deref(g, m.target).position, m.position)
                 IN  [g EXCEPT !.entities[k].physics.velocity =
                        <<FMul(FDiv(direction[1], distance), m.move_speed),
                          FMul(FDiv(direction[2], distance), m.move_speed),
                          FMul(FDiv(direction[3], distance), m.move_speed)>>])

\* Monster.update of the monster at place k; a state with no branch (attack)
\* only runs the physics component
Monster_update(g, k, dt) ==
    Bind([g EXCEPT !.entities[k].attack_cooldown = IF @ > 0 THEN @ - dt ELSE @],
         LAMBDA g1 :
    Bind(LET m == g1.entities[k]
         IN  IF m.ai_state = "idle" THEN Monster_update_idle(g1, k)
             ELSE IF m.ai_state = "chase"
             THEN IF m.species = "cacodemon" THEN Cacodemon_update_chase(g1, k)
                  ELSE Monster_update_chase(g1, k, g1.strafe.chase)
             ELSE g1,
         LAMBDA g2 :
            [g2 EXCEPT !.entities[k].physics = PhysicsComponent_update(@, dt)]))

\* Projectile.update
Projectile_update(e, dt) ==
    LET e1 == [e EXCEPT !.position = VAdd(@, VScale(VScale(e.direction, e.speed), dt)),
                        !.lifetime = @ - dt]
    IN  IF e1.lifetime <= 0 THEN Entity_destroy(e1) ELSE e1

\* entity.update(dt) of the object at place k, whatever its class
Entity_update(g, k, dt) ==
    IF g.entities[k].kind = "monster" THEN Monster_update(g, k, dt)
    ELSE IF g.entities[k].kind = "projectile"
    THEN [g EXCEPT !.entities[k] = Projectile_update(@, dt)]
    ELSE g

\* InputManager.update; keys = [forward, right, jump, sprint]
InputManager_update(p, keys) ==
    LET p1 == [p EXCEPT !.sprinting = keys.sprint]
        p2 == IF keys.jump /\ p1.physics.on_ground
              THEN [p1 EXCEPT !.physics.velocity[2] = JUMP_VELOCITY]
              ELSE p1
    IN  [p2 EXCEPT !.move_forward = keys.forward * Unit,
                   !.move_right = keys.right * Unit]

\* Player.update
Player_update(p0, dt) ==
    LET p == IF p0.damage_flash > 0 THEN [p0 EXCEPT !.damage_flash = @ - dt] ELSE p0
        move_dir == <<p.move_forward, 0, p.move_right>>
        md == Normalize3(move_dir)
        forward == NormalizeIfNonzero([p.camera_forward EXCEPT ![2] = 0])
        right == NormalizeIfNonzero([p.camera_right EXCEPT ![2] = 0])
        world_move == VAdd(VScale(forward, md[1]), VScale(right, md[3]))
        speed == IF p.sprinting THEN FMul(PLAYER_SPEED, PLAYER_SPRINT_MULTIPLIER)
                                ELSE PLAYER_SPEED
        p1 == IF Norm3(move_dir) > 0
              THEN [p EXCEPT !.physics.velocity[1] = FMul(world_move[1], speed),
                             !.physics.velocity[3] = FMul(world_move[3], speed)]
              ELSE [p EXCEPT !.physics.velocity[1] = 0,
                             !.physics.velocity[3] = 0]
        p2 == [p1 EXCEPT !.physics = PhysicsComponent_update(@, dt)]
    IN  [p2 EXCEPT !.camera_position = VAdd(p2.position, <<0, CAMERA_HEIGHT, 0>>),
                   !.current_weapon = IF @ = NoWeapon THEN @ ELSE Weapon_update(@, dt)]

\* the places, in order, of the objects of the store that satisfy Test
PlacesOf(ents, Test(_)) ==
    SelectSeq([k \in 1..Len(ents) |-> k], LAMBDA k : Test(ents[k]))

\* [cos, sin] of 2 * pi * i / n for n <= 4 monsters
FlankAngle(i, n) ==
    IF i = 0 THEN <<Unit, 0>>
    ELSE IF n = 2 THEN <<-Unit, 0>>
    ELSE IF n = 3 THEN (IF i = 1 THEN <<-5000, 8660>> ELSE <<-5000, -8660>>)
    ELSE IF i = 1 THEN <<0, Unit>>
    ELSE IF i = 2 THEN <<-Unit, 0>> ELSE <<0, -Unit>>

\* AIController._coordinate_group_attack, monsters i, i + 1, ... of the group
RECURSIVE AIController_coordinate_from(_, _, _)
AIController_coordinate_from(g, monsters, i) ==
    IF i > Len(monsters) THEN g
    ELSE LET m == g.entities[monsters[i]]
             angle == FlankAngle(i - 1, Len(monsters))
             flank_distance == DivT(m.preferred_range * 3, 2)
             flank == <<g.player.position[1] + FMul(angle[1], flank_distance),
                        g.player.position[2],
                        g.player.position[3] + FMul(angle[2], flank_distance)>>
         IN  AIController_coordinate_from(
                [g EXCEPT !.entities[monsters[i]].ai_data.flanking_target = flank],
                monsters, i + 1)

\* AIController._assess_monster_tactics
AIController_assess_monster_tactics(g, k) ==
    LET m == g.entities[k]
        direction_away == HorizontalDirection(VSub(m.position, g.player.position))
    IN  IF 10 * m.health < 3 * m.max_health
        THEN [g EXCEPT
                !.entities[k].ai_data.aggression_level = 3000,
                !.entities[k].ai_data.retreat_position =
                    IF Hypot(m.position[1] - g.player.position[1],
                             m.position[3] - g.player.position[3]) > 0
                    THEN VAdd(m.position, VScale(direction_away, 5 * Unit))
                    ELSE @]
        ELSE [g EXCEPT
                !.entities[k].ai_data.aggression_level =
                    IF 10 * m.health < 6 * m.max_health THEN 7000 ELSE Unit,
                !.entities[k].ai_data.retreat_position = NoPosition]

RECURSIVE AIController_assess_from(_, _, _)
AIController_assess_from(g, monsters, i) ==
    IF i > Len(monsters) THEN g
    ELSE AIController_assess_from(
            AIController_assess_monster_tactics(g, monsters[i]), monsters, i + 1)

\* AIController._update_tactical_decisions
AIController_update_tactical_decisions(g) ==
    Bind(PlacesOf(g.entities,
            LAMBDA e : e.in_ai /\ ~e.dead /\ e.target # NoTarget),
         LAMBDA active_monsters :
            AIController_assess_from(
                IF Len(active_monsters) >= 2
                THEN AIController_coordinate_from(g, active_monsters, 1)
                ELSE g,
                active_monsters, 1))

\* AIController._execute_retreat
AIController_execute_retreat(g, k) ==
    LET m == g.entities[k]
        to_retreat == VSub(m.ai_data.retreat_position, m.position)
        distance_to_retreat == Hypot(to_retreat[1], to_retreat[3])
        speed == FMul(m.move_speed, 12000)
    IN  IF distance_to_retreat > Unit
        THEN WithVelocityXZ(g, k,
                FMul(FDiv(to_retreat[1], distance_to_retreat), speed),
                FMul(FDiv(to_retreat[3], distance_to_retreat), speed))
        ELSE Bind(WithVelocityXZ(g, k, 0, 0), LAMBDA g1 :
                IF Entity_distance_to(m, g.player) <= m.attack_range
                THEN Monster_attack_if_ready(g1, k)
                ELSE g1)

\* AIController._execute_flanking
AIController_execute_flanking(g, k) ==
    LET m == g.entities[k]
        to_flank == VSub(m.ai_data.flanking_target, m.position)
        distance_to_flank == Hypot(to_flank[1], to_flank[3])
        to_player == VSub(g.player.position, m.position)
        direction_to_player == HorizontalDirection(to_player)
        half_speed == FMul(m.move_speed, 5000)
    IN  IF distance_to_flank > 15000
        THEN WithVelocityXZ(g, k,
                FMul(FDiv(to_flank[1], distance_to_flank), m.move_speed),
                FMul(FDiv(to_flank[3], distance_to_flank), m.move_speed))
        ELSE IF Entity_distance_to(m, g.player) <= m.attack_range
        THEN Monster_attack_if_ready(WithVelocityXZ(g, k, 0, 0), k)
        ELSE IF Hypot(to_player[1], to_player[3]) > 0
        THEN WithVelocityXZ(g, k, FMul(direction_to_player[1], half_speed),
                                  FMul(direction_to_player[3], half_speed))
        ELSE g

\* AIController._execute_ranged_tactics; sign is the strafe sign read off
\* the clock
AIController_execute_ranged_tactics(g, k, aggression, sign) ==
    LET m == g.entities[k]
        distance == Entity_distance_to(m, g.player)
        direction == HorizontalDirection(VSub(g.player.position, m.position))
        min_range == FMul(m.min_range, 2 * Unit - aggression)
        strafe_speed == FMul(FMul(m.move_speed, 7000), aggression)
        advance_speed == FMul(m.move_speed, 8000 + FMul(aggression, 4000))
    IN  IF distance < min_range
        THEN WithVelocityXZ(g, k,
                FMul(FMul(-direction[1], m.move_speed), 9000),
                FMul(FMul(-direction[3], m.move_speed), 9000))
        ELSE IF distance <= m.attack_range
        THEN Monster_attack_if_ready(
                WithVelocityXZ(g, k, FMul(-direction[3], strafe_speed) * sign,
                                     FMul(direction[1], strafe_speed) * sign), k)
        ELSE WithVelocityXZ(g, k, FMul(direction[1], advance_speed),
                                  FMul(direction[3], advance_speed))

\* AIController._execute_melee_tactics
AIController_execute_melee_tactics(g, k, aggression) ==
    LET m == g.entities[k]
        distance == Entity_distance_to(m, g.player)
        direction == HorizontalDirection(VSub(g.player.position, m.position))
        base_mult == 8000 + FMul(aggression, 5000)
        speed_mult == IF distance > 5 * Unit THEN FMul(base_mult, 13000)
                      ELSE IF distance < 25000 THEN FMul(base_mult, 7000)
                      ELSE base_mult
    IN  IF distance <= m.attack_range
        THEN Monster_attack_if_ready(WithVelocityXZ(g, k, 0, 0), k)
        ELSE WithVelocityXZ(g, k,
                FMul(FMul(direction[1], m.move_speed), speed_mult),
                FMul(FMul(direction[3], m.move_speed), speed_mult))

\* AIController._apply_advanced_behavior
AIController_apply_advanced_behavior(g, k) ==
    LET m == g.entities[k]
    IN  IF m.ai_data.retreat_position # NoPosition
        THEN AIController_execute_retreat(g, k)
        ELSE IF m.ai_data.flanking_target # NoPosition
        THEN AIController_execute_flanking(g, k)
        ELSE IF m.is_ranged
        THEN AIController_execute_ranged_tactics(g, k, m.ai_data.aggression_level,
                                                 g.strafe.tactics)
        ELSE AIController_execute_melee_tactics(g, k, m.ai_data.aggression_level)

\* AIController.update, body of the loop over the monsters
AIController_update_monster(g, k) ==
    IF g.entities[k].dead THEN [g EXCEPT !.entities[k].in_ai = FALSE]
    ELSE Bind(IF g.entities[k].target = NoTarget
                 /\ Entity_distance_to(g.entities[k], g.player)
                        < g.entities[k].sight_range
              THEN [g EXCEPT !.entities[k] = Monster_set_target(@, PlayerRef)]
              ELSE g,
              LAMBDA g1 :
                IF g1.entities[k].target # NoTarget
                THEN AIController_apply_advanced_behavior(g1, k)
                ELSE g1)

RECURSIVE AIController_update_from(_, _, _)
AIController_update_from(g, monsters, i) ==
    IF i > Len(monsters) THEN g
    ELSE AIController_update_from(AIController_update_monster(g, monsters[i]),
                                  monsters, i + 1)

\* AIController.update(dt, player): the timer and the tactical decisions,
\* then the loop over a copy of the monster list
AIController_update(g, dt) ==
    Bind(IF g.ai_controller.update_timer + dt >= TacticalUpdateInterval
         THEN [AIController_update_tactical_decisions(g)
                    EXCEPT !.ai_controller.update_timer = 0]
         ELSE [g EXCEPT !.ai_controller.update_timer = @ + dt],
         LAMBDA g1 :
            AIController_update_from(g1,
                PlacesOf(g1.entities, LAMBDA e : e.in_ai), 1))

\* PhysicsSystem.update over the registered objects, the player among them
Game_physics_update(g, root, lvl, dt) ==
    [g EXCEPT
        !.entities = [k \in DOMAIN g.entities |->
            IF g.entities[k].in_physics
            THEN PhysicsSystem_update_entity(root, lvl, g.entities[k], dt)
            ELSE g.entities[k]],
        !.player = PhysicsSystem_update_entity(root, lvl, g.player, dt)]

\* Engine._update, loop over a copy of self.entities: update, then drop the
\* dead
RECURSIVE Engine_update_entities_from(_, _, _, _)
Engine_update_entities_from(g, listed, i, dt) ==
    IF i > Len(listed) THEN g
    ELSE Bind(Entity_update(g, listed[i], dt), LAMBDA g1 :
            Engine_update_entities_from(
                IF g1.entities[listed[i]].dead
                THEN [g1 EXCEPT !.entities[listed[i]].in_game = FALSE]
                ELSE g1,
                listed, i + 1, dt))

Engine_update_entities(g, dt) ==
    Engine_update_entities_from(g, PlacesOf(g.entities, LAMBDA e : e.in_game),
                                1, dt)

\* Engine._update; g = [player, entities, ai_controller, log, strafe, error]
Engine_update(g, keys, dt, root, lvl) ==
    Bind([g EXCEPT !.player = InputManager_update(g.player, keys)], LAMBDA g1 :
        IF g1.player.health <= 0 THEN g1
        ELSE Bind(AIController_update(g1, dt), LAMBDA g2 :
             Bind([g2 EXCEPT !.player = Player_update(g2.player, dt)], LAMBDA g3 :
             Bind(Engine_update_entities(g3, dt), LAMBDA g4 :
                 Game_physics_update(g4, root, lvl, dt)))))

\* _handle_collisions: a position pushed out of the walls one after the other
RECURSIVE Game_resolve_walls_from(_, _, _, _)
Game_resolve_walls_from(position, aabb, walls, k) ==
    IF k > Len(walls) THEN position
    ELSE Bind(CollisionSystem_resolve_aabb_wall_collision(position, aabb, walls[k]),
              LAMBDA pushed : Game_resolve_walls_from(pushed, aabb, walls, k + 1))

\* CollisionSystem.check_aabb_collision (AABB.intersects)
CollisionSystem_check_aabb_collision(a, b) ==
    \A i \in 1..3 : a.min[i] <= b.max[i] /\ a.max[i] >= b.min[i]

\* Projectile.on_hit of the projectile at place k on the object target refers
\* to.  Player.take_damage takes the amount only, so the call with the owner
\* as a second argument raises TypeError before destroy is reached.
Projectile_on_hit(g, k, target) ==
    Bind(Logged(g, [ev |-> "on_hit", who |-> k, target |-> target,
                    active |-> g.entities[k].active]), LAMBDA g1 :
        LET e == g1.entities[k]
        IN  IF target # e.owner /\ target = PlayerRef
            THEN [g1 EXCEPT !.error = "TypeError"]
            ELSE IF target # e.owner /\ target # PlayerRef
                    /\ g1.entities[target.k].kind = "monster"
            THEN [Logged(g1, [ev |-> "take_damage", who |-> k, target |-> target])
                    EXCEPT !.entities[target.k] =
                                Monster_take_damage(@, e.damage, e.owner),
                           !.entities[k] = Entity_destroy(@)]
            ELSE [g1 EXCEPT !.entities[k] = Entity_destroy(@)])

\* _handle_collisions, entity loop, wall part for the object at place k
Game_entity_walls(g, k, lvl) ==
    LET e == g.entities[k]
        entity_aabb == AABB_translate(e.aabb, e.position)
    IN  IF e.kind = "projectile"
        THEN IF \E w \in DOMAIN lvl.walls :
                    CollisionSystem_check_aabb_wall_collision(entity_aabb,
                                                              lvl.walls[w]).collides
             THEN [g EXCEPT !.entities[k] = Entity_destroy(@)]
             ELSE g
        ELSE [g EXCEPT !.entities[k].position =
                Game_resolve_walls_from(@, e.aabb, lvl.walls, 1)]

\* _handle_collisions, entity loop, projectile part: the player first, then
\* the first listed object that is hit
Game_projectile_hits(g, k) ==
    LET e == g.entities[k]
        proj_aabb == AABB_translate(e.aabb, e.position)
        others == PlacesOf(g.entities, LAMBDA o : o.in_game /\ o.active)
        struck == SelectSeq(others, LAMBDA o :
                    /\ o # k
                    /\ EntityRef(o) # e.owner
                    /\ CollisionSystem_check_aabb_collision(proj_aabb,
                            AABB_translate(g.entities[o].aabb, g.entities[o].position)))
    IN  IF e.owner # PlayerRef
           /\ CollisionSystem_check_aabb_collision(proj_aabb,
                    AABB_translate(g.player.aabb, g.player.position))
        THEN Projectile_on_hit(g, k, PlayerRef)
        ELSE IF struck # <<>> THEN Projectile_on_hit(g, k, EntityRef(struck[1]))
        ELSE g

\* _handle_collisions, body of the loop over a copy of self.entities
Game_entity_collisions(g, k, lvl) ==
    IF ~g.entities[k].active THEN g
    ELSE Bind(Game_entity_walls(g, k, lvl), LAMBDA g1 :
            IF g1.entities[k].kind = "projectile" /\ g1.entities[k].active
            THEN Game_projectile_hits(g1, k)
            ELSE g1)

\* the loop stops at the first exception
RECURSIVE Game_entity_collisions_from(_, _, _, _)
Game_entity_collisions_from(g, listed, i, lvl) ==
    IF i > Len(listed) \/ g.error # "none" THEN g
    ELSE Game_entity_collisions_from(Game_entity_collisions(g, listed[i], lvl),
                                     listed, i + 1, lvl)

\* on_pickup of HealthPack, ArmorBonus and AmmoBox
Item_on_pickup(g, k) ==
    LET e == g.entities[k]
        taken == [Logged(g, [ev |-> "pickup", who |-> k])
                    EXCEPT !.entities[k] = Entity_destroy(@)]
    IN  IF e.species = "health"
        THEN IF g.player.health < g.player.max_health
             THEN [taken EXCEPT !.player = Player_heal(@, e.amount * Unit)]
             ELSE g
        ELSE IF e.species = "armor"
        THEN IF g.player.armor < g.player.max_armor
             THEN [taken EXCEPT !.player = Player_add_armor(@, e.amount * Unit)]
             ELSE g
        ELSE [taken EXCEPT !.player = Player_add_ammo(@, e.ammo_type, e.amount)]

\* _handle_collisions, item loop over a copy of self.entities
RECURSIVE Game_item_pickups_from(_, _, _)
Game_item_pickups_from(g, listed, i) ==
    IF i > Len(listed) THEN g
    ELSE LET e == g.entities[listed[i]]
         IN  Game_item_pickups_from(
                IF e.kind = "item" /\ e.active
                   /\ Entity_distance_to(e, g.player) < e.pickup_range
                THEN Item_on_pickup(g, listed[i])
                ELSE g,
                listed, i + 1)

\* _handle_collisions: the player against the walls, the entity loop, the
\* item loop; an exception ends it
Game_handle_collisions(g, lvl) ==
    Bind([g EXCEPT !.player.position =
            Game_resolve_walls_from(g.player.position, g.player.aabb, lvl.walls, 1)],
         LAMBDA g1 :
    Bind(Game_entity_collisions_from(g1,
            PlacesOf(g1.entities, LAMBDA e : e.in_game), 1, lvl), LAMBDA g2 :
        IF g2.error # "none" THEN g2
        ELSE Game_item_pickups_from(g2,
                PlacesOf(g2.entities, LAMBDA e : e.in_game), 1)))

\* _handle_weapon_fire on the objects of game.entities
Game_frame_weapon_fire(g, lvl) ==
    LET listed == [k \in DOMAIN g.entities |->
                    [g.entities[k] EXCEPT !.active = @ /\ g.entities[k].in_game]]
    IN  Bind(Game_handle_weapon_fire(g.player, listed, lvl), LAMBDA r :
            [g EXCEPT
                !.player.weapon_fire_data = <<>>,
                !.player.kills = r.kills,
                !.entities = [k \in DOMAIN g.entities |->
                    IF g.entities[k].in_game THEN r.entities[k] ELSE g.entities[k]]])

\* DoomCloneGame.run.custom_update: one frame
Game_custom_update(g, keys, dt, root, lvl) ==
    Bind(Engine_update(g, keys, dt, root, lvl), LAMBDA g1 :
    Bind(Game_physics_update(g1, root, lvl, dt), LAMBDA g2 :
    Bind(AIController_update(g2, dt), LAMBDA g3 :
    Bind(Game_frame_weapon_fire(g3, lvl), LAMBDA g4 :
        Game_handle_collisions(g4, lvl)))))

----------------------------------------------------------------------------
(* Level construction (world/level.py, world/level_loader.py) *)

EmptyLevel == [walls |-> <<>>, sectors |-> <<>>]

Level_add_sector(lvl, sector) == [lvl EXCEPT !.sectors = Append(@, sector)]
Level_add_wall(lvl, wall) == [lvl EXCEPT !.walls = Append(@, wall)]

\* a closed rectangular loop of four walls in the order of create_test_level
\* (north, east, south, west), owned by sector s
RectWalls(x0, z0, x1, z1, s) ==
    << Wall(<<x0, 0, z0>>, <<x1, 0, z0>>, s),
       Wall(<<x1, 0, z0>>, <<x1, 0, z1>>, s),
       Wall(<<x1, 0, z1>>, <<x0, 0, z1>>, s),
       Wall(<<x0, 0, z1>>, <<x0, 0, z0>>, s) >>

\* the square room of half-width h around the origin
RoomWalls(h, s) == RectWalls(-h, -h, h, h, s)

\* create_test_level with the given heights
RoomLevel(h, floor_height, ceiling_height) ==
    [walls |-> RoomWalls(h, 1), sectors |-> << Sector(floor_height, ceiling_height) >>]

----------------------------------------------------------------------------
(* Specification Spec: the physics system stepping entities over a level *)

MaxSteps == 3

\* Level.build: the tree is built once from the level's walls
BuiltTree(lvl) == BSPTree_build(NoNode, lvl.walls, lvl.sectors)

PhysLevels ==
    { EmptyLevel,
      RoomLevel(50000, 0, 25000),
      RoomLevel(50000, 0, 12000) }

PhysEntities ==
    { Entity(<<xz, y, xz>>, box[1], PhysicsComponent(box[2], g)) :
        xz \in {0, 60000}, y \in {-10000, 5000, 20000},
        box \in { <<DefaultAABB, Unit>>, <<ImpAABB, 2 * Unit>> },
        g \in BOOLEAN }

PhysEntityLists ==
    { <<e>> : e \in PhysEntities } \cup
    { << Entity(<<0, -10000, 0>>, ImpAABB, PhysicsComponent(Unit, TRUE)),
         Entity(<<60000, 20000, 0>>, DefaultAABB, PhysicsComponent(Unit, TRUE)) >>,
      << Entity(<<0, 20000, 0>>, DefaultAABB, PhysicsComponent(Unit, FALSE)),
         Entity(<<0, 5000, 0>>, ImpAABB, PhysicsComponent(2 * Unit, TRUE)) >> }

Forces == { <<40000, 0, 0>>, <<0, 100000, -20000>> }
Impulses == { <<0, 80000, 0>>, <<-30000, 0, 30000>> }
Dts == { 500, 1000 }

Init ==
    /\ player = NoPlayer
    /\ ai_controller = NoController
    /\ level \in PhysLevels
    /\ bsp_tree = BuiltTree(level)
    /\ entities \in PhysEntityLists
    /\ ret = NoReturn
    /\ hist = [op |-> "init", dt |-> 0, pre |-> <<>>, steps |-> 0,
               forces |-> [i \in DOMAIN entities |-> <<>>]]

\* hist.forces[i]: the forces applied to entity i since the last update (at
\* an update: the forces that update consumes)
ApplyForce(i, force) ==
    /\ hist.steps < MaxSteps
    /\ entities' = [entities EXCEPT
                        ![i].physics = PhysicsComponent_apply_force(@, force)]
    /\ hist' = [op |-> "apply_force", dt |-> 0, pre |-> entities,
                steps |-> hist.steps + 1,
                forces |-> IF hist.op = "update"
                           THEN [k \in DOMAIN entities |->
                                    IF k = i THEN <<force>> ELSE <<>>]
                           ELSE [hist.forces EXCEPT ![i] = Append(@, force)]]
    /\ UNCHANGED <<level, bsp_tree, player, ai_controller, ret>>

ApplyImpulse(i, impulse) ==
    /\ hist.steps < MaxSteps
    /\ entities' = [entities EXCEPT
                        ![i].physics = PhysicsComponent_apply_impulse(@, impulse)]
    /\ hist' = [op |-> "apply_impulse", dt |-> 0, pre |-> entities,
                steps |-> hist.steps + 1,
                forces |-> IF hist.op = "update"
                           THEN [k \in DOMAIN entities |-> <<>>]
                           ELSE hist.forces]
    /\ UNCHANGED <<level, bsp_tree, player, ai_controller, ret>>

PhysicsStep(dt) ==
    /\ hist.steps < MaxSteps
    /\ entities' = PhysicsSystem_update(bsp_tree, level, entities, dt)
    /\ hist' = [op |-> "update", dt |-> dt, pre |-> entities,
                steps |-> hist.steps + 1,
                forces |-> IF hist.op = "update"
                           THEN [k \in DOMAIN entities |-> <<>>]
                           ELSE hist.forces]
    /\ UNCHANGED <<level, bsp_tree, player, ai_controller, ret>>

Next ==
    \/ \E i \in DOMAIN entities, force \in Forces : ApplyForce(i, force)
    \/ \E i \in DOMAIN entities, impulse \in Impulses : ApplyImpulse(i, impulse)
    \/ \E dt \in Dts : PhysicsStep(dt)

Spec == Init /\ [][Next]_vars

----------------------------------------------------------------------------
(* Claims about the physics step (specification Spec) *)

\* the entity i as it was before the last call, and after steps 1-5 of it
Before(i) == hist.pre[i]
Integrated(i) == PhysicsSystem_integrate_entity(hist.pre[i], hist.dt)
\* the sector the tree gives for the entity's (x, z) after the displacement
SectorUnder(i) ==
    BSPTree_find_sector_at(bsp_tree, Integrated(i).position[1],
                           Integrated(i).position[3])
BoxHeight(i) == entities[i].aabb.max[2] - entities[i].aabb.min[2]

\* C1: one PhysicsSystem.update(dt) applies to every entity, in this order:
\* gravity into the vertical acceleration iff use_gravity and not on_ground
\* (on_ground of the previous step), velocity += acceleration*dt, acceleration
\* zeroed, x and z velocity times 0.9 iff on_ground, position += velocity*dt
\* with the new velocity, and only then the ground/ceiling clamp, which
\* decides on the integrated position.
C1_StepOrder ==
    hist.op = "update" =>
        \A i \in DOMAIN entities :
            LET p == Before(i).physics
                dt == hist.dt
                ay == p.acceleration[2] -
                        (IF p.use_gravity /\ ~p.on_ground THEN GRAVITY ELSE 0)
                vx1 == p.velocity[1] + DivT(p.acceleration[1] * dt, Unit)
                vy1 == p.velocity[2] + DivT(ay * dt, Unit)
                vz1 == p.velocity[3] + DivT(p.acceleration[3] * dt, Unit)
                vx2 == IF p.on_ground THEN DivT(vx1 * 9, 10) ELSE vx1
                vz2 == IF p.on_ground THEN DivT(vz1 * 9, 10) ELSE vz1
                x1 == Before(i).position[1] + DivT(vx2 * dt, Unit)
                y1 == Before(i).position[2] + DivT(vy1 * dt, Unit)
                z1 == Before(i).position[3] + DivT(vz2 * dt, Unit)
                sector == BSPTree_find_sector_at(bsp_tree, x1, z1)
                e == entities[i]
            IN  /\ e.physics.acceleration = Zero3
                /\ e.physics.velocity[1] = vx2
                /\ e.physics.velocity[3] = vz2
                /\ e.position[1] = x1
                /\ e.position[3] = z1
                /\ IF sector = NONE
                   THEN /\ e.position[2] = y1
                        /\ e.physics.velocity[2] = vy1
                        /\ e.physics.on_ground = p.on_ground
                   ELSE /\ e.physics.on_ground =
                                (y1 <= level.sectors[sector].floor_height)
                        /\ e.position[2] \in
                             { y1, level.sectors[sector].floor_height,
                               level.sectors[sector].ceiling_height - BoxHeight(i) }
                        /\ e.physics.velocity[2] \in { vy1, 0 }
                        /\ e.position[2] # y1 => e.physics.velocity[2] = 0

\* C1 witness: a step has run on an entity that stood on the ground with a
\* horizontal velocity (damped) and was clamped again after moving
C1_Witness ==
    /\ hist.op = "update"
    /\ \E i \in DOMAIN entities :
        /\ Before(i).physics.on_ground
        /\ Before(i).physics.use_gravity
        /\ Before(i).physics.velocity[1] # 0
        /\ entities[i].physics.velocity[1] # Before(i).physics.velocity[1]
        /\ entities[i].position[1] # Before(i).position[1]
        /\ entities[i].physics.on_ground

\* C2 as stated: with a sector under the entity, a Y at or below the floor
\* after the displacement ends the step at position.y = floor_height,
\* velocity.y = 0, on_ground; a Y above the floor ends it with on_ground false.
C2_Original ==
    hist.op = "update" =>
        \A i \in DOMAIN entities :
            SectorUnder(i) # NONE =>
                LET sec == level.sectors[SectorUnder(i)]
                    e == entities[i]
                IN  IF Integrated(i).position[2] <= sec.floor_height
                    THEN /\ e.position[2] = sec.floor_height
                         /\ e.physics.velocity[2] = 0
                         /\ e.physics.on_ground
                    ELSE ~e.physics.on_ground

\* C2 amended: as C2, except that in a sector no taller than the entity's box
\* (floor_height + box height >= ceiling_height) the ceiling clamp of the same
\* step moves the grounded entity to ceiling_height - box height.
C2_GroundClamp ==
    hist.op = "update" =>
        \A i \in DOMAIN entities :
            SectorUnder(i) # NONE =>
                LET sec == level.sectors[SectorUnder(i)]
                    e == entities[i]
                IN  IF Integrated(i).position[2] <= sec.floor_height
                    THEN /\ e.physics.velocity[2] = 0
                         /\ e.physics.on_ground
                         /\ e.position[2] =
                              IF sec.floor_height + BoxHeight(i) >= sec.ceiling_height
                              THEN sec.ceiling_height - BoxHeight(i)
                              ELSE sec.floor_height
                    ELSE ~e.physics.on_ground

\* C2 witness: the scenario of the claim - an entity with gravity at y = -1
\* over a floor at 0, in a sector taller than its box, after one step
C2_Witness ==
    /\ hist.op = "update"
    /\ hist.steps = 1
    /\ \E i \in DOMAIN entities :
        /\ SectorUnder(i) # NONE
        /\ level.sectors[SectorUnder(i)].floor_height = 0
        /\ BoxHeight(i) < level.sectors[SectorUnder(i)].ceiling_height
        /\ Before(i).position[2] = -Unit
        /\ Before(i).physics.use_gravity
        /\ Integrated(i).physics.velocity[2] < 0
        /\ entities[i].position[2] = 0
        /\ entities[i].physics.velocity[2] = 0
        /\ entities[i].physics.on_ground

\* the ceiling test of _check_ground_collision fired for entity i in the
\* last step: position.y + box height, after the floor test, reached the ceiling
CeilingClampFired(i) ==
    /\ hist.op = "update"
    /\ SectorUnder(i) # NONE
    /\ LET sec == level.sectors[SectorUnder(i)]
           y == IF Integrated(i).position[2] <= sec.floor_height
                THEN sec.floor_height ELSE Integrated(i).position[2]
       IN  y + BoxHeight(i) >= sec.ceiling_height

\* C3 as stated: whenever the ceiling clamp fires, the top of the entity's
\* world-space box (local box translated by the position) is at
\* ceiling_height afterwards and velocity.y = 0, for every local box.
C3_CeilingTop ==
    \A i \in DOMAIN entities :
        CeilingClampFired(i) =>
            /\ AABB_translate(entities[i].aabb, entities[i].position).max[2] =
                    level.sectors[SectorUnder(i)].ceiling_height
            /\ entities[i].physics.velocity[2] = 0

\* C4 as stated: an entity with gravity whose (x, z) lies in no sector of the
\* level is not clamped by the step: it ends with on_ground false and its
\* vertical velocity lower by g*dt.
InNoSector(x, z) ==
    \A s \in DOMAIN level.sectors : ~Sector_contains_point(level, s, x, z)

C4_FreeFall ==
    hist.op = "update" =>
        \A i \in DOMAIN entities :
            ( /\ Before(i).physics.use_gravity
              /\ ~Before(i).physics.on_ground
              /\ Before(i).physics.acceleration = Zero3
              /\ InNoSector(Before(i).position[1], Before(i).position[3])
              /\ InNoSector(entities[i].position[1], entities[i].position[3]) )
            => /\ ~entities[i].physics.on_ground
               /\ entities[i].physics.velocity[2] =
                    Before(i).physics.velocity[2] - FMul(GRAVITY, hist.dt)

RECURSIVE VSum(_)
VSum(fs) == IF fs = <<>> THEN Zero3 ELSE VAdd(Head(fs), VSum(Tail(fs)))

\* the acceleration the forces consumed by the last update give entity i:
\* their sum over the mass, and gravity when it applies
ConsumedAcceleration(i) ==
    LET p == Before(i).physics
        f == VSum(hist.forces[i])
    IN  <<FDiv(f[1], p.mass),
          FDiv(f[2], p.mass)
            - (IF p.use_gravity /\ ~p.on_ground THEN GRAVITY ELSE 0),
          FDiv(f[3], p.mass)>>

\* the velocity PhysicsComponent.update(dt) of the last step left entity i
VelocityAfterUpdate(i) == PhysicsComponent_update(Before(i).physics, hist.dt).velocity

\* C16 as stated: the update changes the velocity by (f1+...+fn)/mass*dt,
\* plus gravity when it applies, for the forces applied since the previous
\* update in any order, and leaves the acceleration zero.
C16_Original ==
    hist.op = "update" =>
        \A i \in DOMAIN entities :
            /\ VelocityAfterUpdate(i)
                = VAdd(Before(i).physics.velocity,
                       VScale(ConsumedAcceleration(i), hist.dt))
            /\ entities[i].physics.acceleration = Zero3

\* C16 amended: as stated for an entity that is not on the ground; for an
\* entity on the ground the x and z components of the velocity so obtained
\* are then multiplied by 0.9.
C16_ForcesCompose ==
    hist.op = "update" =>
        \A i \in DOMAIN entities :
            LET v == VAdd(Before(i).physics.velocity,
                          VScale(ConsumedAcceleration(i), hist.dt))
            IN  /\ VelocityAfterUpdate(i)
                    = IF Before(i).physics.on_ground
                      THEN <<Damp(v[1]), v[2], Damp(v[3])>>
                      ELSE v
                /\ entities[i].physics.acceleration = Zero3

\* C16 witness: an update consumed two different forces applied to one
\* entity and changed its velocity by their sum over the mass times dt
C16_Witness ==
    /\ hist.op = "update"
    /\ \E i \in DOMAIN entities :
        /\ Len(hist.forces[i]) = 2
        /\ hist.forces[i][1] # hist.forces[i][2]
        /\ ~Before(i).physics.use_gravity
        /\ VelocityAfterUpdate(i) # Before(i).physics.velocity
        /\ VelocityAfterUpdate(i)
            = VAdd(Before(i).physics.velocity,
                   VScale(<<FDiv(VSum(hist.forces[i])[1], Before(i).physics.mass),
                            FDiv(VSum(hist.forces[i])[2], Before(i).physics.mass),
                            FDiv(VSum(hist.forces[i])[3], Before(i).physics.mass)>>,
                          hist.dt))

----------------------------------------------------------------------------
(* Specification SpecBSP: a level is built once, then points are looked up *)

\* two rooms side by side; the walls of sector 2 were added first
TwoRoomLevel ==
    [walls |-> RectWalls(0, -50000, 50000, 50000, 2) \o
               RectWalls(-50000, -50000, 0, 50000, 1),
     sectors |-> << Sector(0, 25000), Sector(5000, 30000) >>]

\* a level file whose first wall names no known sector (sectors_by_id.get
\* gives None)
OrphanWallLevel ==
    [walls |-> << Wall(<<-70000, 0, 0>>, <<-60000, 0, 0>>, NONE) >> \o RoomWalls(50000, 1),
     sectors |-> << Sector(0, 25000) >>]

BSPLevels ==
    { EmptyLevel,
      [walls |-> <<>>, sectors |-> << Sector(0, 25000) >>],
      RoomLevel(50000, 0, 25000),
      RoomLevel(20000, 10000, 30000),
      TwoRoomLevel,
      OrphanWallLevel }

QueryCoords == { -60000, -25000, 0, 25000, 60000 }

InitBSP ==
    /\ player = NoPlayer
    /\ ai_controller = NoController
    /\ level \in BSPLevels
    /\ bsp_tree = NoNode
    /\ entities = <<>>
    /\ ret = NoReturn
    /\ hist = [op |-> "init", built |-> FALSE]

\* Level.build -> BSPTree.build(walls, sectors), once per level
Build ==
    /\ ~hist.built
    /\ bsp_tree' = BSPTree_build(bsp_tree, level.walls, level.sectors)
    /\ hist' = [op |-> "build", built |-> TRUE]
    /\ ret' = NoReturn
    /\ UNCHANGED <<level, entities, player, ai_controller>>

FindSectorAt(x, z) ==
    /\ ret' = [kind |-> "sector", sector |-> BSPTree_find_sector_at(bsp_tree, x, z)]
    /\ hist' = [op |-> "find_sector_at", built |-> hist.built, x |-> x, z |-> z]
    /\ UNCHANGED <<level, bsp_tree, entities, player, ai_controller>>

NextBSP ==
    \/ Build
    \/ \E x \in QueryCoords, z \in QueryCoords : FindSectorAt(x, z)

SpecBSP == InitBSP /\ [][NextBSP]_vars

\* C5 as stated: after build, find_sector_at(x, z) returns a sector only if
\* that sector contains the point, and none when no sector contains it.
C5_FindContains ==
    (hist.op = "find_sector_at" /\ hist.built) =>
        /\ ret.sector # NONE =>
                Sector_contains_point(level, ret.sector, hist.x, hist.z)
        /\ (\A s \in DOMAIN level.sectors :
                ~Sector_contains_point(level, s, hist.x, hist.z))
           => ret.sector = NONE

\* C6: build on a fresh index with no walls leaves the index empty and every
\* query returns none; with walls it makes one leaf holding all the walls,
\* tagged with the first wall's sector, which every query returns.
C6_Build ==
    hist.built =>
        IF level.walls = <<>>
        THEN /\ bsp_tree = NoNode
             /\ hist.op = "find_sector_at" => ret.sector = NONE
        ELSE /\ bsp_tree.kind = "leaf"
             /\ bsp_tree.walls = level.walls
             /\ bsp_tree.sector = level.walls[1].sector
             /\ hist.op = "find_sector_at" => ret.sector = level.walls[1].sector

\* C6 witness: a query on a built level of two sectors returned the first
\* wall's sector, which is not the sector of every wall
C6_Witness ==
    /\ hist.built
    /\ hist.op = "find_sector_at"
    /\ level.walls # <<>>
    /\ ret.sector = level.walls[1].sector
    /\ ret.sector # NONE
    /\ \E k \in DOMAIN level.walls : level.walls[k].sector # ret.sector

----------------------------------------------------------------------------
(* Specification SpecCollision: an entity is pushed out of, and slid along, *)
(* the walls of a level                                                     *)

WallX == Wall(<<0, 0, 0>>, <<10000, 0, 0>>, 1)
WallZ == Wall(<<0, 0, 0>>, <<0, 0, 10000>>, 1)
WallDiag == Wall(<<0, 0, 0>>, <<8000, 0, 6000>>, 1)
\* a wall whose start and end coincide
WallPoint == Wall(<<3000, 0, 0>>, <<3000, 0, 0>>, 1)
WallTiny == Wall(<<0, 0, 0>>, <<5, 0, 0>>, 1)

CollisionLevels ==
    { [walls |-> ws, sectors |-> << Sector(0, 25000) >>] :
        ws \in { <<WallX>>, <<WallDiag>>, <<WallX, WallZ>>, <<WallTiny, WallZ>>,
                 <<WallPoint>> } }

CollisionPositions ==
    { <<x, 0, z>> : x \in { -2000, 0, 3000, 5000, 10000, 11500 },
                    z \in { -2000, -1000, 0, 1500, 4000 } }

CollisionVelocities ==
    { <<0, 0, 0>>, <<10000, 0, 20000>>, <<0, 0, -20000>>, <<-10000, 0, -10000>> }

CollisionEntities ==
    { [Entity(pos, box, PhysicsComponent(Unit, FALSE)) EXCEPT !.physics.velocity = v] :
        pos \in CollisionPositions, box \in {DefaultAABB, ImpAABB},
        v \in CollisionVelocities }

InitCollision ==
    /\ player = NoPlayer
    /\ ai_controller = NoController
    /\ level \in CollisionLevels
    /\ bsp_tree = BuiltTree(level)
    /\ entities \in { <<e>> : e \in CollisionEntities }
    /\ ret = NoReturn
    /\ hist = [op |-> "init", steps |-> 0]

\* position = resolve_aabb_wall_collision(position, aabb, wall) for one wall
ResolveWall(k) ==
    /\ hist.steps < MaxSteps
    /\ entities' = [entities EXCEPT ![1].position =
            CollisionSystem_resolve_aabb_wall_collision(@, entities[1].aabb,
                                                        level.walls[k])]
    /\ hist' = [op |-> "resolve", wall |-> k, pre |-> entities,
                steps |-> hist.steps + 1]
    /\ UNCHANGED <<level, bsp_tree, player, ai_controller, ret>>

\* position, velocity = slide_collision(position, velocity, aabb, walls, dt)
Slide(dt) ==
    /\ hist.steps < MaxSteps
    /\ LET m == CollisionSystem_slide_collision(entities[1].position,
                    entities[1].physics.velocity, entities[1].aabb,
                    level.walls, dt)
       IN  /\ entities' = [entities EXCEPT ![1].position = m.position,
                                           ![1].physics.velocity = m.velocity]
           /\ hist' = [op |-> "slide", dt |-> dt, touched |-> m.touched,
                       pre |-> entities, steps |-> hist.steps + 1]
    /\ UNCHANGED <<level, bsp_tree, player, ai_controller, ret>>

NextCollision ==
    \/ \E k \in DOMAIN level.walls : ResolveWall(k)
    \/ \E dt \in { 1000 } : Slide(dt)

SpecCollision == InitCollision /\ [][NextCollision]_vars

\* check_aabb_wall_collision for the entity's box, placed at position pos, against wall k
CheckAt(pos, k) ==
    CollisionSystem_check_aabb_wall_collision(
        AABB_translate(entities[1].aabb, pos), level.walls[k])

NonDegenerate(wall) ==
    (wall.end[1] - wall.start[1]) * (wall.end[1] - wall.start[1]) +
    (wall.end[3] - wall.start[3]) * (wall.end[3] - wall.start[3])
        >= DegenerateLengthSq

\* C7: for a non-degenerate wall, the position resolve_aabb_wall_collision
\* returns for a colliding position does not collide with that wall; a
\* position that does not collide is returned unchanged; resolving the
\* result again changes nothing.
C7_ResolveSeparates ==
    (hist.op = "resolve" /\ NonDegenerate(level.walls[hist.wall])) =>
        LET before == hist.pre[1].position
            after == entities[1].position
        IN  /\ CheckAt(before, hist.wall).collides =>
                    ~CheckAt(after, hist.wall).collides
            /\ ~CheckAt(before, hist.wall).collides => after = before
            /\ CollisionSystem_resolve_aabb_wall_collision(
                    after, entities[1].aabb, level.walls[hist.wall]) = after

\* C7 witness: a box overlapping a wall near its endpoint, off the wall's
\* line, has been pushed out
C7_Witness ==
    /\ hist.op = "resolve"
    /\ NonDegenerate(level.walls[hist.wall])
    /\ CheckAt(hist.pre[1].position, hist.wall).collides
    /\ CheckAt(hist.pre[1].position, hist.wall).normal[1] # 0
    /\ CheckAt(hist.pre[1].position, hist.wall).normal[3] # 0
    /\ entities[1].position # hist.pre[1].position

\* the position slide_collision first tries: position + velocity*dt
Tentative == VAdd(hist.pre[1].position,
                  VScale(hist.pre[1].physics.velocity, hist.dt))

\* unit vector along wall k, start to end
WallTangent(k) == <<-level.walls[k].normal[3], 0, level.walls[k].normal[1]>>

\* the projection of the box's centre (box placed at pos) onto the line of
\* wall k falls on the segment, endpoints included
ProjectsOnSegment(pos, k) ==
    LET wall == level.walls[k]
        center == AABB_get_center(AABB_translate(entities[1].aabb, pos))
        dx == wall.end[1] - wall.start[1]
        dz == wall.end[3] - wall.start[3]
        dot == (center[1] - wall.start[1]) * dx + (center[3] - wall.start[3]) * dz
    IN  0 <= dot /\ dot <= dx * dx + dz * dz

\* velocities are compared up to the rounding of the arithmetic: 0.001
RoundingTol == Unit \div 1000
Near(a, b) == Abs(a - b) <= RoundingTol

\* the last call was slide_collision, wall k is the one wall it collided
\* with, and the entity was moving into it
SlidInto(k) ==
    /\ hist.op = "slide"
    /\ hist.touched = <<k>>
    /\ NonDegenerate(level.walls[k])
    /\ VDot(hist.pre[1].physics.velocity, CheckAt(Tentative, k).normal) < 0

\* C8 as stated: at any contact point, endpoints included, the returned
\* velocity has no component into the wall along the wall's normal, keeps its
\* component along the wall (both up to rounding), and the returned position
\* does not collide.
C8_Original ==
    \A k \in DOMAIN level.walls :
        SlidInto(k) =>
            /\ VDot(entities[1].physics.velocity, level.walls[k].normal)
                    >= -RoundingTol
            /\ Near(VDot(entities[1].physics.velocity, WallTangent(k)),
                    VDot(hist.pre[1].physics.velocity, WallTangent(k)))
            /\ ~CheckAt(entities[1].position, k).collides

\* C8 amended: the returned position never collides with the wall; the
\* velocity statements hold where the box's centre projects onto the segment
\* (the contact normal is then perpendicular to the wall).  Past an endpoint
\* the contact normal points from the endpoint to the centre and it is the
\* component along that direction that is removed.
C8_Slide ==
    \A k \in DOMAIN level.walls :
        SlidInto(k) =>
            /\ ~CheckAt(entities[1].position, k).collides
            /\ ProjectsOnSegment(Tentative, k) =>
                /\ VDot(entities[1].physics.velocity, level.walls[k].normal)
                        >= -RoundingTol
                /\ Near(VDot(entities[1].physics.velocity, WallTangent(k)),
                        VDot(hist.pre[1].physics.velocity, WallTangent(k)))

\* C8 witness: an entity moving diagonally into the side of a wall has been
\* slid along it: it lost its velocity into the wall and kept the rest
C8_Witness ==
    \E k \in DOMAIN level.walls :
        /\ SlidInto(k)
        /\ ProjectsOnSegment(Tentative, k)
        /\ VDot(hist.pre[1].physics.velocity, WallTangent(k)) # 0
        /\ entities[1].physics.velocity # hist.pre[1].physics.velocity
        /\ VDot(entities[1].physics.velocity, level.walls[k].normal) = 0

\* C18: for a wall of squared XZ length below 1e-6,
\* check_aabb_wall_collision returns (false, 0, zero vector) for every box,
\* resolve_aabb_wall_collision returns the position unchanged, and
\* slide_collision returns the position and velocity it returns for the
\* wall list without that wall.
C18_DegenerateWall ==
    /\ \A k \in DOMAIN level.walls :
        ~NonDegenerate(level.walls[k]) =>
            CheckAt(entities[1].position, k) = NoCollision
    /\ (hist.op = "resolve" /\ ~NonDegenerate(level.walls[hist.wall])) =>
            /\ CheckAt(hist.pre[1].position, hist.wall) = NoCollision
            /\ entities[1].position = hist.pre[1].position
    /\ hist.op = "slide" =>
            LET m == CollisionSystem_slide_collision(
                        hist.pre[1].position, hist.pre[1].physics.velocity,
                        hist.pre[1].aabb,
                        SelectSeq(level.walls, NonDegenerate), hist.dt)
            IN  /\ entities[1].position = m.position
                /\ entities[1].physics.velocity = m.velocity
                /\ \A j \in DOMAIN hist.touched :
                        NonDegenerate(level.walls[hist.touched[j]])

\* the box placed at pos reaches over the start point of wall k
CoversWallStart(pos, k) ==
    LET c == AABB_get_center(AABB_translate(entities[1].aabb, pos))
        size == AABB_get_size(entities[1].aabb)
    IN  Hypot(c[1] - level.walls[k].start[1], c[3] - level.walls[k].start[3])
            < DivT(Max2(size[1], size[3]), 2)

\* C18 witness: a moving box was slid to a position that reaches over a
\* near-zero-length wall, and that wall changed nothing
C18_Witness ==
    /\ hist.op = "slide"
    /\ hist.pre[1].physics.velocity # Zero3
    /\ \E k \in DOMAIN level.walls :
        /\ ~NonDegenerate(level.walls[k])
        /\ CoversWallStart(Tentative, k)
        /\ CoversWallStart(entities[1].position, k)
        /\ hist.touched = <<>>
        /\ entities[1].position = Tentative
        /\ entities[1].physics.velocity = hist.pre[1].physics.velocity

----------------------------------------------------------------------------
(* Specification of raycasting: Raycast.cast_ray is called on levels whose
   wall list holds the same walls in every order *)

\* walls in a level's list, at most
MaxWalls == 3

\* two walls across the x axis at x = -0.5 (one listed end to start, so that
\* both are struck at the same distance with opposite normals), one at
\* x = 0, and a slanted one crossing the axis at x = -0.4
RayWallNear == Wall(<<-5000, 0, -5000>>, <<-5000, 0, 5000>>, 1)
RayWallNearBack == Wall(<<-5000, 0, 5000>>, <<-5000, 0, -5000>>, 1)
RayWallFar == Wall(<<0, 0, -5000>>, <<0, 0, 5000>>, 1)
RayWallSlant == Wall(<<-8000, 0, -3000>>, <<0, 0, 3000>>, 1)
RayWalls == {RayWallNear, RayWallNearBack, RayWallFar, RayWallSlant}

IsInjective(q) == \A i, j \in DOMAIN q : q[i] = q[j] => i = j

RayLevels ==
    {[sectors |-> <<Sector(0, 25000)>>, walls |-> w] :
        w \in {q \in UNION {[1..n -> RayWalls] : n \in 0..MaxWalls} :
                    IsInjective(q)}}

RayEntityLists ==
    {<<>>,
     <<Entity(<<0, 0, 0>>, DefaultAABB, NONE)>>,
     <<Entity(<<0, 0, 10000>>, DefaultAABB, NONE)>>,
     <<Entity(<<20000, 0, 0>>, DefaultAABB, NONE),
       Entity(<<0, 0, 0>>, ImpAABB, NONE)>>}

RayOrigins == {<<-10000, 0, 0>>, <<0, 0, 0>>, <<-10000, 0, 1000>>}
RayDirections ==
    {<<10000, 0, 0>>, <<-10000, 0, 0>>, <<20000, 0, 0>>, <<8000, 0, 6000>>,
     <<0, 0, 10000>>}
RayMaxDistances == {5500, 30000}

InitRaycast ==
    /\ player = NoPlayer
    /\ ai_controller = NoController
    /\ level \in RayLevels
    /\ bsp_tree = NoNode
    /\ entities \in RayEntityLists
    /\ ret = NoReturn
    /\ hist = [op |-> "init"]

CastRay(origin, direction, max_distance) ==
    /\ ret' = Raycast_cast_ray(origin, direction, max_distance, level, entities)
    /\ hist' = [op |-> "cast_ray", origin |-> origin, direction |-> direction,
                max_distance |-> max_distance]
    /\ UNCHANGED <<level, bsp_tree, entities, player, ai_controller>>

NextRaycast ==
    \E origin \in RayOrigins, direction \in RayDirections,
       max_distance \in RayMaxDistances :
        CastRay(origin, direction, max_distance)

SpecRaycast == InitRaycast /\ [][NextRaycast]_vars

----------------------------------------------------------------------------
(* Claims about Raycast.cast_ray *)

\* where the ray origin + u * direction, u >= 0, crosses the segment of the
\* wall in the XZ plane: the point start + t * (end - start), 0 <= t <= 1,
\* and u is the distance along the ray
RayCrossing(wall, origin, direction) ==
    LET ex == wall.end[1] - wall.start[1]
        ez == wall.end[3] - wall.start[3]
        ox == wall.start[1] - origin[1]
        oz == wall.start[3] - origin[3]
        cross == direction[1] * ez - direction[3] * ex
    IN  IF Abs(cross) < ParallelDenom THEN [hit |-> FALSE, distance |-> Inf]
        ELSE LET u == FDiv(ox * ez - oz * ex, cross)
                 t == FDiv(ox * direction[3] - oz * direction[1], cross)
             IN  IF 0 <= t /\ t <= Unit /\ u >= 0
                 THEN [hit |-> TRUE, distance |-> u]
                 ELSE [hit |-> FALSE, distance |-> Inf]

\* the normalised direction of the last cast_ray call
RayDir == Normalize3(hist.direction)

\* the result of Wall.intersects_ray for wall k of lvl in the last call
WallHit(lvl, k) == Wall_intersects_ray(lvl.walls[k], hist.origin, RayDir)

\* the walls of lvl struck by the last ray within max_distance
WallCandidates(lvl) ==
    {k \in DOMAIN lvl.walls :
        WallHit(lvl, k).hit /\ WallHit(lvl, k).distance <= hist.max_distance}

\* the first wall in list order among those struck at the smallest distance
NearestWall(lvl) ==
    CHOOSE k \in WallCandidates(lvl) :
        \A j \in WallCandidates(lvl) :
            \/ WallHit(lvl, k).distance < WallHit(lvl, j).distance
            \/ WallHit(lvl, k).distance = WallHit(lvl, j).distance /\ k <= j

\* level with its wall list reordered by q
Reordered(q) == [level EXCEPT !.walls = [i \in DOMAIN level.walls |-> level.walls[q[i]]]]

\* the last call was cast_ray without entities
CastWallsOnly == hist.op = "cast_ray" /\ entities = <<>>

\* C9, the loop of cast_ray alone: among the walls for which
\* Wall.intersects_ray reports a hit within max_distance the one with the
\* smallest reported distance is returned, whatever the order of
\* level.walls: every reordering of the list gives the same distance, and
\* the same normal when that distance is reported for one wall only; among
\* walls with that same distance the first in list order is returned.
C9_NearestWall ==
    CastWallsOnly =>
        /\ ret.hit <=> WallCandidates(level) # {}
        /\ ret.hit =>
            /\ ret.distance = WallHit(level, NearestWall(level)).distance
            /\ ret.normal = level.walls[NearestWall(level)].normal
            /\ ret.point = WallHit(level, NearestWall(level)).point
        /\ \A q \in Permutations(DOMAIN level.walls) :
            LET other == Raycast_cast_ray(hist.origin, hist.direction,
                                          hist.max_distance, Reordered(q), <<>>)
                tied == \E i, j \in WallCandidates(level) :
                            /\ i # j
                            /\ WallHit(level, i).distance = ret.distance
                            /\ WallHit(level, j).distance = ret.distance
            IN  /\ other.hit = ret.hit
                /\ other.distance = ret.distance
                /\ ~tied => other = ret

\* C9 witness: the ray struck two walls at different distances and a third
\* at the nearest distance again, the nearest was listed after a farther
\* one, and the first listed of the two nearest was returned
C9_Witness ==
    /\ CastWallsOnly
    /\ ret.hit
    /\ \E i, j, k \in WallCandidates(level) :
        /\ i < j /\ j < k
        /\ WallHit(level, i).distance > WallHit(level, j).distance
        /\ WallHit(level, j).distance = WallHit(level, k).distance
        /\ level.walls[j].normal # level.walls[k].normal
        /\ ret.distance = WallHit(level, j).distance
        /\ ret.normal = level.walls[j].normal

\* the walls crossed by the last ray ahead of its origin within max_distance
WallsStruck ==
    {k \in DOMAIN level.walls :
        /\ RayCrossing(level.walls[k], hist.origin, RayDir).hit
        /\ RayCrossing(level.walls[k], hist.origin, RayDir).distance
                <= hist.max_distance}

\* C9: for walls struck by the ray at distinct distances within
\* max_distance, cast_ray returns the smallest of these distances and the
\* normal of that nearest wall (whatever the order of level.walls).
C9_NearestStruck ==
    (/\ CastWallsOnly
     /\ WallsStruck # {}
     /\ \A i, j \in WallsStruck :
            i # j => RayCrossing(level.walls[i], hist.origin, RayDir).distance
                     # RayCrossing(level.walls[j], hist.origin, RayDir).distance)
    => /\ ret.hit
       /\ \E k \in WallsStruck :
            /\ ret.distance = RayCrossing(level.walls[k], hist.origin, RayDir).distance
            /\ ret.normal = level.walls[k].normal
            /\ \A j \in WallsStruck :
                    ret.distance <= RayCrossing(level.walls[j], hist.origin, RayDir).distance

\* the result of AABB.intersect_ray for entity k in the last call
EntityHit(k) == AABB_intersect_ray(entities[k].aabb, hist.origin, RayDir)

\* the entities struck ahead of the origin within max_distance
EntityCandidates ==
    {k \in DOMAIN entities :
        /\ EntityHit(k).hit
        /\ EntityHit(k).t_near >= 0
        /\ EntityHit(k).t_near <= hist.max_distance}

\* C10: whenever cast_ray reports a hit, wall or entity, also with the
\* origin inside an entity's box, 0 <= distance <= max_distance and no
\* candidate ahead of the origin is nearer; with no candidate hit = false.
C10_HitInRange ==
    hist.op = "cast_ray" =>
        /\ ret.hit =>
            /\ 0 <= ret.distance
            /\ ret.distance <= hist.max_distance
            /\ \A k \in WallCandidates(level) :
                    ret.distance <= WallHit(level, k).distance
            /\ \A k \in EntityCandidates : ret.distance <= EntityHit(k).t_near
        /\ (WallCandidates(level) = {} /\ EntityCandidates = {}) => ~ret.hit

\* the world-space footprint of entity k: its aabb translated by its position
WorldAABB(k) == AABB_translate(entities[k].aabb, entities[k].position)

\* AABB.intersect_ray of the last ray on the world-space footprint of entity k
WorldHit(k) == AABB_intersect_ray(WorldAABB(k), hist.origin, RayDir)

\* C11: cast_ray reports entity k as hit only where the ray enters k's aabb
\* translated by k's position, at that entry distance; and an entity alone
\* in a level without walls whose translated aabb is entered ahead of the
\* origin within max_distance is reported as hit.
C11_WorldFootprint ==
    hist.op = "cast_ray" =>
        /\ \A k \in DOMAIN entities :
            (ret.hit /\ ret.entity = k) =>
                /\ WorldHit(k).hit
                /\ ret.distance = WorldHit(k).t_near
        /\ (/\ level.walls = <<>>
            /\ Len(entities) = 1
            /\ WorldHit(1).hit
            /\ WorldHit(1).t_near >= 0
            /\ WorldHit(1).t_near <= hist.max_distance)
           => (ret.hit /\ ret.entity = 1)

----------------------------------------------------------------------------
(* Specification of line of sight: Raycast.line_of_sight is called between
   two distinct points of the levels of the raycasting specification *)

\* (start, end) pairs: across the wall at x = 0, which is the midpoint, in
\* both directions; up to the wall at x = -0.5; slanted through that wall;
\* and along z away from every wall
SightSegments ==
    {<<(<<-10000, 0, 0>>), (<<10000, 0, 0>>)>>,
     <<(<<10000, 0, 0>>), (<<-10000, 0, 0>>)>>,
     <<(<<-10000, 0, 0>>), (<<-5000, 0, 0>>)>>,
     <<(<<-10000, 0, 0>>), (<<-2000, 0, 6000>>)>>,
     <<(<<-10000, 0, 1000>>), (<<-10000, 0, 11000>>)>>}

InitSight ==
    /\ player = NoPlayer
    /\ ai_controller = NoController
    /\ level \in RayLevels
    /\ bsp_tree = NoNode
    /\ entities \in RayEntityLists
    /\ ret = NoReturn
    /\ hist = [op |-> "init"]

LineOfSight(start, end) ==
    /\ start # end
    /\ ret' = Raycast_line_of_sight(start, end, level, entities)
    /\ hist' = [op |-> "line_of_sight", start |-> start, end |-> end]
    /\ UNCHANGED <<level, bsp_tree, entities, player, ai_controller>>

NextSight == \E seg \in SightSegments : LineOfSight(seg[1], seg[2])

SpecSight == InitSight /\ [][NextSight]_vars

\* direction and length of the segment of the last line_of_sight call
SightDir == Normalize3(VSub(hist.end, hist.start))
SightDistance == Norm3(VSub(hist.end, hist.start))

\* a wall, or the world-space footprint of an entity, is struck by the ray
\* from start toward end at a distance strictly less than |end - start|
SightBlocked ==
    \/ \E k \in DOMAIN level.walls :
        LET r == RayCrossing(level.walls[k], hist.start, SightDir)
        IN  r.hit /\ r.distance < SightDistance
    \/ \E k \in DOMAIN entities :
        LET r == AABB_intersect_ray(WorldAABB(k), hist.start, SightDir)
        IN  r.hit /\ r.t_near < SightDistance

\* C12: line_of_sight(start, end, level, entities) with start # end returns
\* false iff the ray from start toward end strikes a wall or an entity at a
\* distance strictly less than |end - start|, and true otherwise.
C12_LineOfSight ==
    hist.op = "line_of_sight" => (ret.clear <=> ~SightBlocked)

----------------------------------------------------------------------------
(* Specification of hitscan fire: the player queues shots with
   HitscanWeapon._do_fire and the game resolves them in _handle_weapon_fire *)

\* shots queued between two calls of _handle_weapon_fire, at most
MaxShots == 2

ShotLevels ==
    {[sectors |-> <<Sector(0, 25000)>>, walls |-> w] :
        w \in {<<>>, <<RayWallNear>>, <<RayWallFar>>, <<RayWallFar, RayWallNear>>}}

\* Imps at the origin, behind one another along x, and off the x axis; one
\* of them already hurt down to one shot's worth of health
ShotEntityLists ==
    {<<Monster(<<0, 0, 0>>, ImpAABB, ImpHealth)>>,
     <<Monster(<<0, 0, 0>>, ImpAABB, PistolDamage)>>,
     <<Monster(<<10000, 0, 0>>, ImpAABB, ImpHealth),
       Monster(<<0, 0, 0>>, ImpAABB, ImpHealth)>>,
     <<Monster(<<0, 0, 10000>>, ImpAABB, ImpHealth)>>}

CameraPositions == {<<-10000, 5000, 0>>, <<-4000, 5000, 0>>}
ShotDirections == {<<10000, 0, 0>>, <<-10000, 0, 0>>, <<8000, 0, 6000>>}

InitHitscan ==
    /\ ai_controller = NoController
    /\ level \in ShotLevels
    /\ bsp_tree = NoNode
    /\ entities \in ShotEntityLists
    /\ \E c \in CameraPositions :
        player = [kind |-> "player", camera_position |-> c,
                  weapon_fire_data |-> <<>>, kills |-> 0]
    /\ ret = NoReturn
    /\ hist = [op |-> "init"]

DoFire(direction) ==
    /\ Len(player.weapon_fire_data) < MaxShots
    /\ player' = HitscanWeapon_do_fire(player, direction, PistolDamage)
    /\ hist' = [op |-> "do_fire"]
    /\ UNCHANGED <<level, bsp_tree, entities, ai_controller, ret>>

HandleWeaponFire ==
    LET g == Game_handle_weapon_fire(player, entities, level)
    IN  /\ entities' = g.entities
        /\ player' = [player EXCEPT !.weapon_fire_data = <<>>, !.kills = g.kills]
        /\ hist' = [op |-> "handle_weapon_fire", shots |-> player.weapon_fire_data,
                    pre |-> entities]
        /\ UNCHANGED <<level, bsp_tree, ai_controller, ret>>

NextHitscan ==
    \/ \E direction \in ShotDirections : DoFire(direction)
    \/ HandleWeaponFire

SpecHitscan == InitHitscan /\ [][NextHitscan]_vars

\* shot i of the last _handle_weapon_fire enters the world-space box of
\* entity k ahead of its origin, and no wall is struck nearer on its ray
ShotReaches(i, k) ==
    LET shot == hist.shots[i]
        r == AABB_intersect_ray(
                AABB_translate(hist.pre[k].aabb, hist.pre[k].position),
                shot.origin, shot.direction)
    IN  /\ r.hit
        /\ r.t_near >= 0
        /\ \A w \in DOMAIN level.walls :
            LET rw == RayCrossing(level.walls[w], shot.origin, shot.direction)
            IN  ~(rw.hit /\ rw.distance < r.t_near)

\* C13: an entity takes damage from a hitscan shot only if no wall is struck
\* by the shot's ray at a smaller distance than the entity: every entity
\* whose health dropped in _handle_weapon_fire was reached by one of the
\* shots in front of every wall.
C13_NoDamageBehindWall ==
    hist.op = "handle_weapon_fire" =>
        \A k \in DOMAIN entities :
            entities[k].health < hist.pre[k].health =>
                \E i \in DOMAIN hist.shots : ShotReaches(i, k)

----------------------------------------------------------------------------
(* Specification of the frame: custom_update runs frame after frame, with
   the keys held down and the clock's strafe signs chosen freely, until an
   exception leaves the game loop *)

\* frames run, at most
MaxFrames == 2

\* the test room at a tenth of its size: walls at x, z = -0.5 and 0.5
FrameLevel == RoomLevel(5000, 0, 25000)

FramePlayers ==
    {[Player(<<0, y, 0>>) EXCEPT !.health = h] :
        y \in {0, 6000}, h \in {PLAYER_MAX_HEALTH * Unit, 0}}

\* a monster as _spawn_test_monsters registers it
Spawned(m) == AIController_add_monster(Registered(m, TRUE, TRUE, FALSE))

\* an object that is only in game.entities (projectiles, items)
Listed(e) == Registered(e, TRUE, FALSE, FALSE)

\* no monster left; an Imp that died during the last frame and is still in
\* game.entities; an Imp that died earlier and is only registered with the
\* physics system; a fireball of that Imp in flight above the player's head,
\* one at the east wall and one at the player's chest; a Demon or an Imp in
\* the room; a Demon with a stray fireball flying at its feet; an ammo box
\* and a health pack within reach
FrameEntityLists ==
    {<<>>,
     <<DeadMonster(<<2000, 8000, 2000>>, ImpAABB, TRUE)>>,
     <<DeadMonster(<<2000, 8000, 2000>>, ImpAABB, FALSE)>>,
     <<DeadMonster(<<2000, 8000, 2000>>, ImpAABB, FALSE),
       Listed(Fireball(<<0, 2 * Unit, 0>>, <<Unit, 0, 0>>, EntityRef(1)))>>,
     <<DeadMonster(<<2000, 8000, 2000>>, ImpAABB, FALSE),
       Listed(Fireball(<<4500, 2 * Unit, 0>>, <<Unit, 0, 0>>, EntityRef(1)))>>,
     <<DeadMonster(<<2000, 8000, 2000>>, ImpAABB, FALSE),
       Listed(Fireball(<<-3500, Unit, 0>>, <<Unit, 0, 0>>, EntityRef(1)))>>,
     <<Spawned(Demon(<<-3000, 0, 3000>>))>>,
     <<Spawned(Imp(<<3000, 0, 3000>>))>>,
     <<Spawned(Demon(<<-2000, 0, 0>>)),
       Listed(Fireball(<<3000, 3000, 0>>, <<-Unit, 0, 0>>, NoTarget))>>,
     <<Listed(Item("ammo", <<2000, 3000, -2000>>, "bullets", 20))>>,
     <<Listed(Item("health", <<2000, 3000, -2000>>, "none", 25))>>}

FrameKeys ==
    [forward : {0, 1}, right : {0}, jump : BOOLEAN, sprint : {FALSE}]

FrameDts == {500}
FrameTimers == {0, 4500}

\* the strafe signs (time.time() % 4 < 2 and time.time() % 3 < 1.5)
StrafeSigns == [chase : {1, -1}, tactics : {1, -1}]

InitFrame ==
    /\ level = FrameLevel
    /\ bsp_tree = BuiltTree(level)
    /\ entities \in FrameEntityLists
    /\ player \in FramePlayers
    /\ \E t \in FrameTimers : ai_controller = [update_timer |-> t]
    /\ ret = NoReturn
    /\ hist = [op |-> "init", frames |-> 0, log |-> <<>>, logged |-> 0]

\* one pass of the game loop; an exception raised in it ends the loop (ret)
Frame(keys, dt, strafe) ==
    LET pre == [player |-> player, entities |-> entities,
                ai_controller |-> ai_controller]
        g0 == pre @@ [log |-> hist.log, strafe |-> strafe, error |-> "none"]
    IN  /\ hist.frames < MaxFrames
        /\ ret = NoReturn
        /\ \E g \in { Game_custom_update(g0, keys, dt, bsp_tree, level) } :
            /\ player' = g.player
            /\ entities' = g.entities
            /\ ai_controller' = g.ai_controller
            /\ ret' = IF g.error = "none" THEN NoReturn
                      ELSE [kind |-> "raise", error |-> g.error]
            /\ hist' = [op |-> "frame", keys |-> keys, dt |-> dt, pre |-> pre,
                        frames |-> hist.frames + 1, log |-> g.log,
                        logged |-> Len(hist.log)]
        /\ UNCHANGED <<level, bsp_tree>>

NextFrame ==
    \E keys \in FrameKeys, dt \in FrameDts, strafe \in StrafeSigns :
        Frame(keys, dt, strafe)

SpecFrame == InitFrame /\ [][NextFrame]_vars

\* the last step was a frame that began with the player alive
FrameAlive == hist.op = "frame" /\ hist.pre.player.health > 0

\* update_timer after one AIController.update(dt)
TimerAfterOne(t, dt) == IF t + dt >= TacticalUpdateInterval THEN 0 ELSE t + dt

\* C14: in a frame with the player alive each phase runs once: the AI
\* controller is updated once (its timer advances by one dt); an object
\* that is only registered with the physics system ends the frame as one
\* PhysicsSystem step leaves it; and the player, in the air before and after
\* the frame, has its vertical velocity changed by gravity * dt once.
C14_FrameOnce ==
    FrameAlive =>
        /\ ai_controller.update_timer
                = TimerAfterOne(hist.pre.ai_controller.update_timer, hist.dt)
        /\ \A k \in DOMAIN entities :
            (hist.pre.entities[k].in_physics /\ ~hist.pre.entities[k].in_game) =>
                LET once == PhysicsSystem_update_entity(bsp_tree, level,
                                hist.pre.entities[k], hist.dt)
                IN  /\ entities[k].position = once.position
                    /\ entities[k].physics = once.physics
        /\ (~hist.pre.player.physics.on_ground /\ ~player.physics.on_ground) =>
                player.physics.velocity[2]
                    = hist.pre.player.physics.velocity[2] - FMul(GRAVITY, hist.dt)

\* the calls recorded for the projectile at place k
HitsOf(k) == SelectSeq(hist.log, LAMBDA c : c.ev = "on_hit" /\ c.who = k)
DamagesOf(k) == SelectSeq(hist.log, LAMBDA c : c.ev = "take_damage" /\ c.who = k)

\* C26: over its whole life a projectile calls take_damage on at most one
\* entity, at most once, never on its owner and never after it was destroyed
\* (every on_hit finds it active), and every on_hit call destroys it.
C26_ProjectileHitsOnce ==
    \A k \in DOMAIN entities :
        entities[k].kind = "projectile" =>
            /\ Len(DamagesOf(k)) <= 1
            /\ \A i \in DOMAIN DamagesOf(k) :
                    DamagesOf(k)[i].target # entities[k].owner
            /\ \A i \in DOMAIN HitsOf(k) : HitsOf(k)[i].active
            /\ (HitsOf(k) # <<>> => entities[k].dead /\ ~entities[k].active)

\* C27: while frames keep running, a projectile listed in game.entities at
\* the start of a frame is updated in it (its lifetime of 5.0 goes down by
\* dt, so it is destroyed after at most ceil(5.0 / dt) updates) unless it is
\* destroyed; one that was destroyed before the frame is off the list after
\* it; and a destroyed one is never active again.  This holds whatever the
\* player's health is.
C27_ProjectilesEnd ==
    (hist.op = "frame" /\ ret = NoReturn) =>
        \A k \in DOMAIN hist.pre.entities :
            (hist.pre.entities[k].kind = "projectile" /\ hist.pre.entities[k].in_game) =>
                IF hist.pre.entities[k].dead
                THEN ~entities[k].in_game /\ entities[k].dead /\ ~entities[k].active
                ELSE \/ entities[k].dead
                     \/ entities[k].lifetime = hist.pre.entities[k].lifetime - hist.dt

\* the last step was a frame that began with the player's health at 0
FrameDead == hist.op = "frame" /\ hist.pre.player.health = 0

\* C28: a frame that begins with the player's health at 0 changes no
\* gameplay state: the player and every entity keep position and velocity,
\* the AI controller is not updated and no monster attacks, no queued shot
\* is resolved and no kill counted, no item is picked up (nothing is
\* recorded, no object is deactivated), and the health is still 0.
C28_DeadFrameFrozen ==
    FrameDead =>
        /\ player.position = hist.pre.player.position
        /\ player.physics.velocity = hist.pre.player.physics.velocity
        /\ \A k \in DOMAIN hist.pre.entities :
            /\ entities[k].position = hist.pre.entities[k].position
            /\ entities[k].active = hist.pre.entities[k].active
            /\ entities[k].kind = "monster" =>
                    entities[k].physics.velocity
                        = hist.pre.entities[k].physics.velocity
        /\ ai_controller = hist.pre.ai_controller
        /\ Len(hist.log) = hist.logged
        /\ player.weapon_fire_data = hist.pre.player.weapon_fire_data
        /\ player.kills = hist.pre.player.kills
        /\ player.health = 0

----------------------------------------------------------------------------
(* Specification SpecSector: points are tested against a rectangular sector *)

\* the rectangles: the test room of create_test_level and an off-centre one
SectorRects ==
    { <<-50000, -50000, 50000, 50000>>,
      <<0, 0, 20000, 10000>> }

\* the four walls of a rectangle in list order q, wall i reversed when i \in flips
SectorLoop(r, q, flips) ==
    LET base == RectWalls(r[1], r[2], r[3], r[4], 1)
    IN  [i \in 1..4 |-> IF i \in flips
                         THEN Wall(base[q[i]].end, base[q[i]].start, 1)
                         ELSE base[q[i]]]

SectorLevels ==
    { [walls |-> SectorLoop(r, q, flips), sectors |-> << Sector(0, 25000) >>] :
        r \in SectorRects, q \in Permutations(1..4), flips \in SUBSET (1..4) }

SectorCoordinates ==
    { -1000000, -60000, -20000, 0, 5000, 10000, 60000, 1000000 }

InitSector ==
    /\ player = NoPlayer
    /\ ai_controller = NoController
    /\ level \in SectorLevels
    /\ bsp_tree = BuiltTree(level)
    /\ entities = <<>>
    /\ ret = NoReturn
    /\ hist = [op |-> "init"]

\* sector.contains_point(x, z)
ContainsPoint(s, x, z) ==
    /\ ret' = [kind |-> "contains", inside |-> Sector_contains_point(level, s, x, z)]
    /\ hist' = [op |-> "contains_point", sector |-> s, x |-> x, z |-> z]
    /\ UNCHANGED <<level, bsp_tree, entities, player, ai_controller>>

NextSector ==
    \E s \in DOMAIN level.sectors, x \in SectorCoordinates, z \in SectorCoordinates :
        ContainsPoint(s, x, z)

SpecSector == InitSector /\ [][NextSector]_vars

SetMin(S) == LET m == CHOOSE v \in S : \A w \in S : v <= w IN m

SetMax(S) == LET m == CHOOSE v \in S : \A w \in S : v >= w IN m

\* the rectangle the walls of the level's loop enclose
LoopXs == { level.walls[i].start[1] : i \in DOMAIN level.walls }
             \cup { level.walls[i].end[1] : i \in DOMAIN level.walls }

LoopZs == { level.walls[i].start[3] : i \in DOMAIN level.walls }
             \cup { level.walls[i].end[3] : i \in DOMAIN level.walls }

StrictlyInside(x, z) ==
    /\ SetMin(LoopXs) < x /\ x < SetMax(LoopXs)
    /\ SetMin(LoopZs) < z /\ z < SetMax(LoopZs)

StrictlyOutside(x, z) ==
    \/ x < SetMin(LoopXs) \/ x > SetMax(LoopXs)
    \/ z < SetMin(LoopZs) \/ z > SetMax(LoopZs)

\* C17: for a closed axis-aligned rectangular loop listed in any order with
\* any wall directions, contains_point is true strictly inside the rectangle
\* and false strictly outside it (true at (0,0) and false at (100,100) for
\* the room with corners (-5,-5) and (5,5)), and the walls parallel to the X
\* axis count no crossing.
C17_RectangleContains ==
    hist.op = "contains_point" =>
        /\ StrictlyInside(hist.x, hist.z) => ret.inside
        /\ StrictlyOutside(hist.x, hist.z) => ~ret.inside
        /\ \A i \in DOMAIN level.walls :
            level.walls[i].start[3] = level.walls[i].end[3]
                => CountCrossings(<<level.walls[i]>>, hist.x, hist.z) = 0

\* C17 witness: the room with corners (-5,-5) and (5,5), listed out of order
\* with a reversed wall, answered true at (0,0)
C17_Witness ==
    /\ hist.op = "contains_point"
    /\ level.walls # RoomWalls(50000, 1)
    /\ \E i \in DOMAIN level.walls :
        level.walls[i] \notin { RoomWalls(50000, 1)[k] : k \in 1..4 }
    /\ SetMin(LoopXs) = -50000 /\ SetMax(LoopXs) = 50000
    /\ SetMin(LoopZs) = -50000 /\ SetMax(LoopZs) = 50000
    /\ hist.x = 0 /\ hist.z = 0
    /\ ret.inside

----------------------------------------------------------------------------
(* Specification SpecAABB: an entity's box is translated, and the returned
   box is translated again *)

\* translate calls chained on one box, at most
MaxTranslations == 2

\* a box whose corners are odd numbers of quanta
OddAABB == AABB(<<-2501, -5001, -2501>>, <<2501, 5001, 2501>>)

TranslateBoxes == { DefaultAABB, ImpAABB, PlayerAABB, OddAABB }

\* offsets: the Imp's spawn position, small ones, and ones of 2^24 quanta
\* and more, each with its opposite
TranslateOffsets ==
    LET half == { <<35000, 8000, 35000>>, <<1, 0, 0>>, <<0, 6000, -10000>>,
                  <<2 ^ F32Significand, 0, 0>>,
                  <<0, 2 ^ (F32Significand + 1), 3 * 2 ^ F32Significand>> }
    IN  half \cup { <<-v[1], -v[2], -v[3]>> : v \in half }

InitAABB ==
    /\ player = NoPlayer
    /\ ai_controller = NoController
    /\ level = EmptyLevel
    /\ bsp_tree = BuiltTree(level)
    /\ entities \in { << Entity(Zero3, box, PhysicsComponent(Unit, TRUE)) >> :
                        box \in TranslateBoxes }
    /\ ret = NoReturn
    /\ hist = [op |-> "init", offsets |-> <<>>]

\* entity.aabb.translate(offset)
Translate(offset) ==
    /\ ret' = [kind |-> "aabb", box |-> AABB_translate(entities[1].aabb, offset)]
    /\ hist' = [op |-> "translate", offsets |-> <<offset>>,
                receiver |-> entities[1].aabb, pre |-> entities]
    /\ UNCHANGED <<level, bsp_tree, entities, player, ai_controller>>

\* returned.translate(offset), on the box the previous call returned
TranslateReturned(offset) ==
    /\ ret.kind = "aabb"
    /\ Len(hist.offsets) < MaxTranslations
    /\ ret' = [kind |-> "aabb", box |-> AABB_translate(ret.box, offset)]
    /\ hist' = [op |-> "translate", offsets |-> Append(hist.offsets, offset),
                receiver |-> ret.box, pre |-> entities]
    /\ UNCHANGED <<level, bsp_tree, entities, player, ai_controller>>

NextAABB ==
    \/ \E offset \in TranslateOffsets : Translate(offset)
    \/ \E offset \in TranslateOffsets : TranslateReturned(offset)

SpecAABB == InitAABB /\ [][NextAABB]_vars

\* the returned box went out by v and came back by -v
RoundTrip ==
    /\ hist.op = "translate"
    /\ Len(hist.offsets) = 2
    /\ hist.offsets[2] = <<-hist.offsets[1][1], -hist.offsets[1][2], -hist.offsets[1][3]>>

\* C19 as stated: translate leaves the receiver unchanged, and
\* aabb.translate(v).translate(-v) has the same min and max as aabb.
C19_Original ==
    /\ hist.op = "translate" => entities = hist.pre
    /\ RoundTrip => ret.box = entities[1].aabb

\* every coordinate of the box plus the offset has a float32 value
SumsRepresentable(a, v) ==
    \A i \in 1..3 : /\ F32Round(a.min[i] + v[i]) = a.min[i] + v[i]
                     /\ F32Round(a.max[i] + v[i]) = a.max[i] + v[i]

\* C19 amended: translate returns a new box whose corners are the receiver's
\* corners plus the offset rounded to float32 and leaves the receiver
\* unchanged; aabb.translate(v).translate(-v) has the min and max of aabb
\* when every corner coordinate plus v is a float32 value, and otherwise
\* each coordinate is off by at most the float32 spacing at that sum.
C19_TranslateRoundTrip ==
    /\ hist.op = "translate" =>
        /\ entities = hist.pre
        /\ \A i \in 1..3 :
            LET v == hist.offsets[Len(hist.offsets)][i]
            IN  /\ 2 * Abs(ret.box.min[i] - (hist.receiver.min[i] + v))
                        <= F32Ulp(hist.receiver.min[i] + v)
                /\ 2 * Abs(ret.box.max[i] - (hist.receiver.max[i] + v))
                        <= F32Ulp(hist.receiver.max[i] + v)
    /\ RoundTrip =>
        /\ SumsRepresentable(entities[1].aabb, hist.offsets[1])
                => ret.box = entities[1].aabb
        /\ \A i \in 1..3 :
            /\ Abs(ret.box.min[i] - entities[1].aabb.min[i])
                    <= F32Ulp(entities[1].aabb.min[i] + hist.offsets[1][i])
            /\ Abs(ret.box.max[i] - entities[1].aabb.max[i])
                    <= F32Ulp(entities[1].aabb.max[i] + hist.offsets[1][i])

\* C19 witness: a box went out by a non-zero offset and came back by its
\* opposite with its min and max as they were, the entity's box untouched
C19_Witness ==
    /\ RoundTrip
    /\ hist.offsets[1] # Zero3
    /\ hist.receiver # entities[1].aabb
    /\ ret.box = entities[1].aabb
    /\ entities = hist.pre

----------------------------------------------------------------------------
(* Specification SpecTree: points are looked up in trees of internal nodes
   and leaves assembled node by node *)

\* partition lines along +X, along +Z, and a slanted one off the origin
PartitionX == << <<0, 0, 0>>, <<10000, 0, 0>> >>
PartitionZ == << <<0, 0, 0>>, <<0, 0, 10000>> >>
PartitionSlant == << <<-5000, 0, 0>>, <<5000, 0, 10000>> >>

\* a child: missing, or a leaf tagged with sector 1, sector 2 or no sector
TreeLeaves == { NoNode, BSPLeaf(<<>>, 1), BSPLeaf(<<>>, 2), BSPLeaf(<<>>, NONE) }

\* internal nodes over leaves
TreeNodes ==
    { BSPNode(p, f, b) : p \in { PartitionZ, PartitionSlant, <<>> },
                         f \in TreeLeaves, b \in TreeLeaves }

\* internal nodes over internal nodes and leaves
TreeRoots ==
    { BSPNode(PartitionX, f, b) :
        f \in { NoNode, BSPLeaf(<<>>, 1) } \cup TreeNodes,
        b \in { NoNode, BSPLeaf(<<>>, 1) } \cup TreeNodes }

TreeCoords == { -5000, 0, 5000 }

InitTree ==
    /\ player = NoPlayer
    /\ ai_controller = NoController
    /\ level = TwoRoomLevel
    /\ bsp_tree \in { BSPLeaf(<<>>, 1) } \cup TreeNodes \cup TreeRoots
    /\ entities = <<>>
    /\ ret = NoReturn
    /\ hist = [op |-> "init", built |-> TRUE]

NextTree == \E x \in TreeCoords, z \in TreeCoords : FindSectorAt(x, z)

SpecTree == InitTree /\ [][NextTree]_vars

\* the 2D cross product of the point against the node's partition segment
PartitionCross(node, x, z) ==
    LET start == node.partition_line[1]
        end == node.partition_line[2]
    IN  (end[1] - start[1]) * (z - start[3]) - (end[3] - start[3]) * (x - start[1])

\* the walk the claim describes; a node without a partition line counts
\* as having the point in front
RECURSIVE WalkFrom(_, _, _)
WalkFrom(node, x, z) ==
    IF node.kind = "leaf" THEN [sector |-> node.sector, steps |-> 0]
    ELSE LET in_front == \/ node.partition_line = <<>>
                         \/ PartitionCross(node, x, z) >= 0
             chosen == IF in_front THEN node.front ELSE node.back
             other == IF in_front THEN node.back ELSE node.front
             next == IF chosen # NoNode THEN chosen ELSE other
         IN  IF next = NoNode THEN [sector |-> NONE, steps |-> 1]
             ELSE LET rest == WalkFrom(next, x, z)
                  IN  [sector |-> rest.sector, steps |-> rest.steps + 1]

RECURSIVE TreeHeight(_)
TreeHeight(node) ==
    IF node.kind # "node" THEN 0
    ELSE 1 + Max2(TreeHeight(node.front), TreeHeight(node.back))

\* C20: on a finite tree find_sector_at ends after at most as many steps as
\* the tree is high, having gone at each internal node to the front child
\* when the cross product is non-negative and to the back child otherwise,
\* to the other child when that one is missing, returning none when both
\* are missing and the leaf's tagged sector at a leaf.
C20_TreeWalk ==
    hist.op = "find_sector_at" =>
        /\ ret.sector = (IF bsp_tree = NoNode THEN NONE
                         ELSE WalkFrom(bsp_tree, hist.x, hist.z).sector)
        /\ bsp_tree # NoNode =>
                WalkFrom(bsp_tree, hist.x, hist.z).steps <= TreeHeight(bsp_tree)

\* C20 witness: the point is in front of the root, whose front child is
\* missing, so the walk took the back child; there it is behind the
\* partition line and the back leaf's sector came back
C20_Witness ==
    /\ hist.op = "find_sector_at"
    /\ bsp_tree.kind = "node"
    /\ bsp_tree.partition_line # <<>>
    /\ PartitionCross(bsp_tree, hist.x, hist.z) >= 0
    /\ bsp_tree.front = NoNode
    /\ bsp_tree.back.kind = "node"
    /\ bsp_tree.back.partition_line # <<>>
    /\ PartitionCross(bsp_tree.back, hist.x, hist.z) < 0
    /\ bsp_tree.back.back.kind = "leaf"
    /\ bsp_tree.back.front.kind = "leaf"
    /\ bsp_tree.back.front.sector # bsp_tree.back.back.sector
    /\ ret.sector = bsp_tree.back.back.sector
    /\ ret.sector # NONE

----------------------------------------------------------------------------
(* Specification SpecRayBox: AABB.intersect_ray on rays whose direction has
   components below 1e-8 *)

\* a box with a face in the plane z = 0, next to the default box
FaceAABB == AABB(<<10000, -5000, 0>>, <<20000, 5000, 10000>>)

RayBoxes == { DefaultAABB, FaceAABB }
RayBoxOrigins == { Zero3, <<0, 0, 5000>>, <<-20000, 0, -5000>> }
RayBoxDirections == { <<Unit, 0, 0>>, <<-Unit, 0, 0>>, <<0, 0, Unit>>, <<7071, 0, 7071>> }

\* components below one quantum: below 1e-8 of either sign, 0, and above 1e-8
RayBoxTinies == { -20, -5, 0, 5, 20 }

InitRayBox ==
    /\ player = NoPlayer
    /\ ai_controller = NoController
    /\ level = EmptyLevel
    /\ bsp_tree = BuiltTree(level)
    /\ entities \in { << Entity(Zero3, box, PhysicsComponent(Unit, TRUE)) >> :
                        box \in RayBoxes }
    /\ ret = NoReturn
    /\ hist = [op |-> "init"]

\* the direction after the replacement of its small components, in quanta
\* of 10^-9
AABB_safe_direction(direction, tiny) ==
    [i \in 1..3 |-> AABB_safe_component(direction[i] * TinyPerQuantum + tiny[i])]

\* entity.aabb.intersect_ray(origin, direction + tiny * 10^-9)
IntersectRay(origin, direction, tiny) ==
    /\ \A i \in 1..3 : direction[i] # 0 => tiny[i] = 0
    /\ ret' = [kind |-> "ray_box",
               result |-> AABB_intersect_ray_tiny(entities[1].aabb, origin, direction, tiny)]
    /\ hist' = [op |-> "intersect_ray", origin |-> origin, direction |-> direction,
                tiny |-> tiny, safe |-> AABB_safe_direction(direction, tiny)]
    /\ UNCHANGED <<level, bsp_tree, entities, player, ai_controller>>

NextRayBox ==
    \E origin \in RayBoxOrigins, direction \in RayBoxDirections,
       tiny \in [1..3 -> RayBoxTinies] : IntersectRay(origin, direction, tiny)

SpecRayBox == InitRayBox /\ [][NextRayBox]_vars

\* C21: every direction component whose magnitude is below 1e-8 is replaced,
\* before the divisions, by a value of magnitude 1e-8 with the sign of the
\* original component (a component of exactly 0 counting as positive), and no
\* divisor is 0.
C21_SignKept ==
    hist.op = "intersect_ray" =>
        \A i \in 1..3 :
            /\ hist.safe[i] # 0
            /\ (hist.direction[i] = 0 /\ Abs(hist.tiny[i]) < TinyDirection) =>
                  /\ Abs(hist.safe[i]) = TinyDirection
                  /\ (hist.tiny[i] < 0 => hist.safe[i] < 0)
                  /\ (hist.tiny[i] >= 0 => hist.safe[i] > 0)

----------------------------------------------------------------------------
(* Specification SpecCheck: check_aabb_wall_collision on boxes and walls at
   different heights *)

\* the wall WallX with its ends at other heights
WallXSloped == Wall(<<0, 30000, 0>>, <<10000, -5000, 0>>, 1)

\* a box deeper than it is wide
DeepAABB == AABB_from_center_size(<<0, 0, 0>>, <<4000, 10000, 8000>>)

CheckLevel ==
    [walls |-> <<WallX, WallXSloped, WallDiag, WallZ, WallTiny>>,
     sectors |-> << Sector(0, 25000) >>]

CheckPositions ==
    { <<x, y, z>> : x \in { -2000, 0, 3000, 5000, 10000, 11500, 12500 },
                    y \in { 0, 6000 },
                    z \in { -2500, -1000, 0, 1500, 4000 } }

InitCheck ==
    /\ player = NoPlayer
    /\ ai_controller = NoController
    /\ level = CheckLevel
    /\ bsp_tree = BuiltTree(level)
    /\ entities \in { << Entity(pos, box, PhysicsComponent(Unit, FALSE)) >> :
                        pos \in CheckPositions,
                        box \in { DefaultAABB, ImpAABB, DeepAABB } }
    /\ ret = NoReturn
    /\ hist = [op |-> "init"]

\* check_aabb_wall_collision(entity.aabb.translate(entity.position), wall)
CheckCollision(k) ==
    /\ ret' = [kind |-> "collision",
               result |-> CollisionSystem_check_aabb_wall_collision(
                            AABB_translate(entities[1].aabb, entities[1].position),
                            level.walls[k])]
    /\ hist' = [op |-> "check", wall |-> k]
    /\ UNCHANGED <<level, bsp_tree, entities, player, ai_controller>>

NextCheck == \E k \in DOMAIN level.walls : CheckCollision(k)

SpecCheck == InitCheck /\ [][NextCheck]_vars

\* The geometry of the last check, computed exactly on the grid of
\* GridStep quanta that every coordinate of the scene lies on
GridStep == Unit \div 20
CheckedBox == AABB_translate(entities[1].aabb, entities[1].position)
CheckedWall == level.walls[hist.wall]
GridCentre == VDivN(AABB_get_center(CheckedBox), GridStep)
GridStart == VDivN(CheckedWall.start, GridStep)
GridEnd == VDivN(CheckedWall.end, GridStep)
GridRadius ==
    Max2(AABB_get_size(CheckedBox)[1], AABB_get_size(CheckedBox)[3]) \div (2 * GridStep)
GridDx == GridEnd[1] - GridStart[1]
GridDz == GridEnd[3] - GridStart[3]
GridLengthSq == GridDx * GridDx + GridDz * GridDz
GridDot == (GridCentre[1] - GridStart[1]) * GridDx + (GridCentre[3] - GridStart[3]) * GridDz
GridCross == (GridCentre[1] - GridStart[1]) * GridDz - (GridCentre[3] - GridStart[3]) * GridDx

\* where the closest point of the segment is
ClosestIsStart == GridDot <= 0
ClosestIsEnd == GridDot >= GridLengthSq
ClosestEndpoint == IF ClosestIsStart THEN GridStart ELSE GridEnd

\* squared XZ distance from the centre to the closest point, times the
\* squared length of the wall
DistanceSqTimesLengthSq ==
    IF ClosestIsStart \/ ClosestIsEnd
    THEN ((GridCentre[1] - ClosestEndpoint[1]) * (GridCentre[1] - ClosestEndpoint[1])
          + (GridCentre[3] - ClosestEndpoint[3]) * (GridCentre[3] - ClosestEndpoint[3]))
         * GridLengthSq
    ELSE GridCross * GridCross

\* the XZ distance in quanta
WallLength == Hypot(CheckedWall.end[1] - CheckedWall.start[1],
                    CheckedWall.end[3] - CheckedWall.start[3])
ClosestDistance ==
    IF ClosestIsStart \/ ClosestIsEnd
    THEN Hypot((GridCentre[1] - ClosestEndpoint[1]) * GridStep,
               (GridCentre[3] - ClosestEndpoint[3]) * GridStep)
    ELSE DivT(Abs(GridCross) * GridStep * GridStep, WallLength)

\* the same box and wall with every Y coordinate set to 0
Flat(v) == <<v[1], 0, v[3]>>
FlatCheck ==
    CollisionSystem_check_aabb_wall_collision(
        AABB(Flat(CheckedBox.min), Flat(CheckedBox.max)),
        [CheckedWall EXCEPT !.start = Flat(@), !.end = Flat(@)])

\* C22: for a non-degenerate wall, check_aabb_wall_collision reports a
\* collision iff the XZ distance from the box's centre to the closest point of
\* the wall segment is strictly less than radius = max(width, depth)/2; then
\* penetration = radius - distance > 0 and normal is the unit XZ vector from
\* the closest point to the centre, or the wall's normal when the centre lies
\* on the segment; the result does not depend on the Y coordinates of the box
\* or of the wall.
C22_CheckDistance ==
    (hist.op = "check" /\ NonDegenerate(CheckedWall)) =>
        LET r == ret.result
        IN  /\ r.collides <=>
                    DistanceSqTimesLengthSq < GridRadius * GridRadius * GridLengthSq
            /\ r.collides =>
                /\ r.penetration > 0
                /\ Near(r.penetration, GridRadius * GridStep - ClosestDistance)
                /\ r.normal[2] = 0
                /\ Near(Hypot(r.normal[1], r.normal[3]), Unit)
                /\ DistanceSqTimesLengthSq = 0 => r.normal = CheckedWall.normal
                /\ (DistanceSqTimesLengthSq # 0 /\ (ClosestIsStart \/ ClosestIsEnd)) =>
                        /\ Near(r.normal[1],
                                FDiv((GridCentre[1] - ClosestEndpoint[1]) * GridStep,
                                     ClosestDistance))
                        /\ Near(r.normal[3],
                                FDiv((GridCentre[3] - ClosestEndpoint[3]) * GridStep,
                                     ClosestDistance))
                /\ (DistanceSqTimesLengthSq # 0 /\ ~(ClosestIsStart \/ ClosestIsEnd)) =>
                        /\ Near(VDot(r.normal, VSub(CheckedWall.end, CheckedWall.start)), 0)
                        /\ VDot(r.normal, VSub(AABB_get_center(CheckedBox),
                                               CheckedWall.start)) > 0
            /\ r = FlatCheck
            /\ ~r.collides => r = NoCollision

\* C22 witness: a box deeper than wide, off the ground, collided with the end
\* of the sloped wall from beyond it, at a distance between width/2 and depth/2
C22_Witness ==
    /\ hist.op = "check"
    /\ CheckedWall = WallXSloped
    /\ entities[1].aabb = DeepAABB
    /\ entities[1].position[2] # 0
    /\ ClosestIsEnd
    /\ ClosestDistance > 2000
    /\ ret.result.collides
    /\ ret.result.normal[1] # 0
    /\ ret.result.normal[3] # 0

----------------------------------------------------------------------------
(* Specification SpecFall: one entity under gravity, stepped with a constant
   dt for as long as the engine runs *)

FallLevels == { RoomLevel(50000, 0, 25000), RoomLevel(50000, 0, 12000), TwoRoomLevel }

\* entities with use_gravity, at rest, inside a sector of each level
FallEntities ==
    { Entity(<<x, y, 10000>>, box, PhysicsComponent(Unit, TRUE)) :
        x \in { -25000, 25000 }, y \in { 0, 5000, 20000 },
        box \in { DefaultAABB, ImpAABB } }

InitFall ==
    /\ player = NoPlayer
    /\ ai_controller = NoController
    /\ level \in FallLevels
    /\ bsp_tree = BuiltTree(level)
    /\ entities \in { <<e>> : e \in FallEntities }
    /\ ret = NoReturn
    /\ \E dt \in Dts : hist = [op |-> "init", dt |-> dt]

\* physics_system.update(dt), with the dt of every step
FallStep ==
    /\ entities' = PhysicsSystem_update(bsp_tree, level, entities, hist.dt)
    /\ hist' = [op |-> "update", dt |-> hist.dt]
    /\ UNCHANGED <<level, bsp_tree, player, ai_controller, ret>>

NextFall == FallStep

\* Engine.run calls the update once per frame until the window closes
SpecFall == InitFall /\ [][NextFall]_vars /\ WF_vars(FallStep)

\* the sector that contains the entity
LocatedIn(s) ==
    Sector_contains_point(level, s, entities[1].position[1], entities[1].position[3])

\* the entity rests on the floor of the sector it is in
RestsOnFloor ==
    /\ entities[1].physics.on_ground
    /\ entities[1].physics.velocity[2] = 0
    /\ \A s \in DOMAIN level.sectors :
            LocatedIn(s) => entities[1].position[2] = level.sectors[s].floor_height

\* C23: an entity with use_gravity and no applied forces or impulses, located
\* in a sector and stepped repeatedly with a constant dt > 0, eventually has
\* on_ground = true; from that step on, at the end of every step on_ground
\* stays true, position.y = floor_height of its sector and velocity.y = 0.
C23_Lands ==
    /\ <>(entities[1].physics.on_ground)
    /\ []((hist.op = "update" /\ entities[1].physics.on_ground) => []RestsOnFloor)

----------------------------------------------------------------------------
(* Specification SpecPlayer: damage, healing and armor pickups applied to the
   player *)

\* amounts of damage, healing and armor: none, a fireball's 3, a Demon's 15,
\* an armor bonus's 50, and more than the maximum
PlayerAmounts == { 0, 3 * Unit, 15 * Unit, 50 * Unit, 130 * Unit }

InitPlayer ==
    /\ player = Player(Zero3)
    /\ ai_controller = NoController
    /\ level = EmptyLevel
    /\ bsp_tree = BuiltTree(level)
    /\ entities = <<>>
    /\ ret = NoReturn
    /\ hist = [op |-> "init", amount |-> 0, pre |-> Player(Zero3), steps |-> 0]

TakeDamage(amount) ==
    /\ hist.steps < MaxSteps
    /\ player' = Player_take_damage(player, amount)
    /\ hist' = [op |-> "take_damage", amount |-> amount, pre |-> player,
                steps |-> hist.steps + 1]
    /\ UNCHANGED <<level, bsp_tree, entities, ai_controller, ret>>

Heal(amount) ==
    /\ hist.steps < MaxSteps
    /\ player' = Player_heal(player, amount)
    /\ hist' = [op |-> "heal", amount |-> amount, pre |-> player,
                steps |-> hist.steps + 1]
    /\ UNCHANGED <<level, bsp_tree, entities, ai_controller, ret>>

AddArmor(amount) ==
    /\ hist.steps < MaxSteps
    /\ player' = Player_add_armor(player, amount)
    /\ hist' = [op |-> "add_armor", amount |-> amount, pre |-> player,
                steps |-> hist.steps + 1]
    /\ UNCHANGED <<level, bsp_tree, entities, ai_controller, ret>>

NextPlayer ==
    \/ \E amount \in PlayerAmounts : TakeDamage(amount)
    \/ \E amount \in PlayerAmounts : Heal(amount)
    \/ \E amount \in PlayerAmounts : AddArmor(amount)

SpecPlayer == InitPlayer /\ [][NextPlayer]_vars

\* what the armor took of the last take_damage
Absorbed == hist.pre.armor - player.armor

\* C29: after any sequence of take_damage, heal and add_armor calls with
\* non-negative amounts, 0 <= health <= max_health and 0 <= armor <=
\* max_armor; in each take_damage the armor absorbs at most half of the amount
\* and never more than the armor available, and health drops by exactly the
\* unabsorbed remainder, floored at 0.
C29_HealthArmorBounds ==
    /\ 0 <= player.health /\ player.health <= player.max_health
    /\ 0 <= player.armor /\ player.armor <= player.max_armor
    /\ hist.op = "take_damage" =>
        /\ 0 <= Absorbed
        /\ 2 * Absorbed <= hist.amount
        /\ Absorbed <= hist.pre.armor
        /\ player.health = Max2(0, hist.pre.health - (hist.amount - Absorbed))

\* C29 witness: a hit on a player whose armor was less than half the damage:
\* the armor is used up and the health takes the rest
C29_Witness ==
    /\ hist.op = "take_damage"
    /\ hist.pre.armor > 0
    /\ 2 * hist.pre.armor < hist.amount
    /\ player.armor = 0
    /\ player.health = hist.pre.health - (hist.amount - hist.pre.armor)
    /\ player.health > 0

----------------------------------------------------------------------------
(* Specification SpecWeapon: the player's weapon is fired and updated *)

\* frame times of 0.1 s and 0.4 s
WeaponDts == { 1000, 4000 }

WeaponPlayers ==
    { [Player(Zero3) EXCEPT !.current_weapon = w, !.ammo["bullets"] = b,
                            !.ammo["shells"] = sh] :
        w \in { Pistol, Shotgun, Chaingun, NoWeapon }, b \in { 0, 1, 50 },
        sh \in { 0, 2 } }

\* hist.since: the dt total of the updates since the last successful fire
\* (-1 before the first); hist.gap: at a successful fire, the value of
\* hist.since it found
InitWeapon ==
    /\ player \in WeaponPlayers
    /\ ai_controller = NoController
    /\ level = EmptyLevel
    /\ bsp_tree = BuiltTree(level)
    /\ entities = <<>>
    /\ ret = NoReturn
    /\ hist = [op |-> "init", pre |-> player, since |-> -1, gap |-> -1, steps |-> 0]

\* player.fire_weapon()
FireWeapon(direction) ==
    /\ hist.steps < MaxSteps
    /\ player' = Player_fire_weapon(player, direction)
    /\ hist' = [op |-> "fire", pre |-> player,
                since |-> IF player' # player THEN 0 ELSE hist.since,
                gap |-> IF player' # player THEN hist.since ELSE -1,
                steps |-> hist.steps + 1]
    /\ UNCHANGED <<level, bsp_tree, entities, ai_controller, ret>>

\* current_weapon.update(dt)
WeaponUpdate(dt) ==
    /\ hist.steps < MaxSteps
    /\ player.current_weapon # NoWeapon
    /\ player' = [player EXCEPT !.current_weapon = Weapon_update(@, dt)]
    /\ hist' = [op |-> "update", pre |-> player,
                since |-> IF hist.since >= 0 THEN hist.since + dt ELSE hist.since,
                gap |-> -1, steps |-> hist.steps + 1]
    /\ UNCHANGED <<level, bsp_tree, entities, ai_controller, ret>>

NextWeapon ==
    \/ \E direction \in ShotDirections : FireWeapon(direction)
    \/ \E dt \in WeaponDts : WeaponUpdate(dt)

SpecWeapon == InitWeapon /\ [][NextWeapon]_vars

\* the weapon of the last fire call could not fire
FireBlocked ==
    LET w == hist.pre.current_weapon
    IN  \/ w.cooldown > 0
        \/ w.reload_time > 0
        \/ hist.pre.ammo[w.ammo_type] < w.ammo_per_shot

----------------------------------------------------------------------------
(* Specification SpecMonster: the calls that drive a monster, one at a time:
   the engine's loop body on an entity (update, then off the list if dead),
   AIController.update, take_damage and set_target.  The level has no walls,
   so the monsters stand at the distances of the full-size game. *)

\* calls made, at most
MaxCalls == 3

\* Monster.__init__ without set_target: no target, idle
Untargeted(m) == [m EXCEPT !.target = NoTarget, !.ai_state = "idle"]

\* a Demon in and out of melee range, an Imp in its strafing band and too
\* close, a Cacodemon in and out of attack range, an idle Demon in and out of
\* sight, a hurt Demon, and an Imp with a Demon
MonsterLists ==
    {<<Spawned(Demon(<<15000, 0, 0>>))>>,
     <<Spawned(Demon(<<4 * Unit, 0, 3 * Unit>>))>>,
     <<Spawned(Imp(<<7 * Unit, 0, 0>>))>>,
     <<Spawned(Imp(<<3 * Unit, 0, 0>>))>>,
     <<Spawned(Cacodemon(<<10 * Unit, 2 * Unit, 0>>))>>,
     <<Spawned(Cacodemon(<<20 * Unit, 0, 0>>))>>,
     <<Spawned(Untargeted(Demon(<<10 * Unit, 0, 0>>)))>>,
     <<Spawned(Untargeted(Demon(<<30 * Unit, 0, 0>>)))>>,
     <<Spawned([Demon(<<15000, 0, 0>>) EXCEPT !.health = 15])>>,
     <<Spawned(Imp(<<9 * Unit, 0, 0>>)), Spawned(Demon(<<0, 0, 15000>>))>>}

MonsterDts == {500}
MonsterTimers == {0, 4500}
MonsterDamages == {10, 100}
StrafeSignSet == {1, -1}

InitMonster ==
    /\ level = EmptyLevel
    /\ bsp_tree = BuiltTree(level)
    /\ entities \in MonsterLists
    /\ player = Player(<<0, 0, 0>>)
    /\ \E t \in MonsterTimers : ai_controller = [update_timer |-> t]
    /\ ret = NoReturn
    /\ hist = [op |-> "init", who |-> 0, pre |-> entities,
               player_health |-> player.health, log |-> <<>>, logged |-> 0,
               calls |-> 0]

\* the game as the operators of a frame see it
MonsterGame(chase, tactics) ==
    [player |-> player, entities |-> entities, ai_controller |-> ai_controller,
     log |-> hist.log, strafe |-> [chase |-> chase, tactics |-> tactics],
     error |-> "none"]

\* what a call leaves behind
MonsterCalled(g, op, k) ==
    /\ player' = g.player
    /\ entities' = g.entities
    /\ ai_controller' = g.ai_controller
    /\ hist' = [op |-> op, who |-> k, pre |-> entities, player_health |-> player.health,
                log |-> g.log, logged |-> Len(hist.log),
                calls |-> hist.calls + 1]
    /\ UNCHANGED <<level, bsp_tree, ret>>

\* Engine._update, body of the loop for the listed object at place k
UpdateEntity(k, dt, sign) ==
    /\ hist.calls < MaxCalls
    /\ entities[k].in_game
    /\ \E g \in { Engine_update_entities_from(MonsterGame(sign, sign), <<k>>, 1, dt) } :
            MonsterCalled(g, "update", k)

UpdateAI(dt, sign) ==
    /\ hist.calls < MaxCalls
    /\ \E g \in { AIController_update(MonsterGame(sign, sign), dt) } :
            MonsterCalled(g, "ai_update", 0)

DamageMonster(k, amount) ==
    /\ hist.calls < MaxCalls
    /\ entities[k].kind = "monster"
    /\ \E g \in { [MonsterGame(1, 1) EXCEPT
                        !.entities[k] = Monster_take_damage(@, amount, PlayerRef)] } :
            MonsterCalled(g, "take_damage", k)

TargetPlayer(k) ==
    /\ hist.calls < MaxCalls
    /\ entities[k].kind = "monster"
    /\ \E g \in { [MonsterGame(1, 1) EXCEPT
                        !.entities[k] = Monster_set_target(@, PlayerRef)] } :
            MonsterCalled(g, "set_target", k)

NextMonster ==
    \/ \E k \in DOMAIN entities, dt \in MonsterDts, sign \in StrafeSignSet :
            UpdateEntity(k, dt, sign)
    \/ \E dt \in MonsterDts, sign \in StrafeSignSet : UpdateAI(dt, sign)
    \/ \E k \in DOMAIN entities, amount \in MonsterDamages : DamageMonster(k, amount)
    \/ \E k \in DOMAIN entities : TargetPlayer(k)

SpecMonster == InitMonster /\ [][NextMonster]_vars

\* the last call was the update of a monster whose health was 0
DeadUpdated ==
    /\ hist.op = "update"
    /\ hist.pre[hist.who].kind = "monster"
    /\ hist.pre[hist.who].health <= 0

\* C24: a monster whose health has reached 0 never attacks afterwards: every
\* perform_attack is called by a monster with health above 0; an update of a
\* monster with health 0 records no call and leaves the player's health
\* alone; and after AIController.update no monster with health 0 is left on
\* the controller's list.
C24_DeadNeverAttacks ==
    /\ \A i \in DOMAIN hist.log :
            hist.log[i].ev = "perform_attack" => hist.log[i].health > 0
    /\ DeadUpdated =>
            /\ Len(hist.log) = hist.logged
            /\ player.health = hist.player_health
    /\ hist.op = "ai_update" =>
            \A k \in DOMAIN entities :
                (entities[k].kind = "monster" /\ entities[k].health <= 0) =>
                    ~entities[k].in_ai

\* a monster that attacked while alive has died, and the engine has updated
\* it once more
C24_Witness ==
    /\ DeadUpdated
    /\ \E i \in DOMAIN hist.log :
            hist.log[i].ev = "perform_attack" /\ hist.log[i].who = hist.who

\* C25: the ai_state of every monster, of every species, is idle, chase or
\* death; a monster with health <= 0 is in death; and death is absorbing: no
\* update, set_target or take_damage leaves it.  (That a living monster can
\* reach chase or idle again is a possibility, the invariant is what is
\* stated here.)
C25_AiStates ==
    \A k \in DOMAIN entities :
        entities[k].kind = "monster" =>
            /\ entities[k].ai_state \in {"idle", "chase", "death"}
            /\ entities[k].health <= 0 => entities[k].ai_state = "death"
            /\ (k \in DOMAIN hist.pre /\ hist.pre[k].ai_state = "death") =>
                    entities[k].ai_state = "death"

====
